---- MODULE Spec2Model ----
(***************************************************************************)
(* Verification model of the myKis trading engine.                         *)
(*                                                                         *)
(* The module holds several state machines over disjoint variable groups:  *)
(*   SpecRun       - the daily schedule gate of TradingEngine._run_core    *)
(*                   and the persisted run-state marker (RunStateStore);   *)
(*   SpecLadder    - the buy scan's order placement: ask-ladder, slippage  *)
(*                   fallback, KisOrder.order and the broker's fills;      *)
(*   SpecAuth      - KisAuth.get_token with its cross-process lock file    *)
(*                   and the persisted issuance cooldown;                  *)
(*   SpecGuard     - the is_running guard flag of one engine instance that *)
(*                   is called from several threads of the web app;        *)
(*   SpecCycle     - the run record of one cycle of _run_core, and         *)
(*                   SpecCycleLive, the same with the steps of the cycle   *)
(*                   running to their end;                                 *)
(*   SpecPositions - the PositionStore entry of one symbol;                *)
(*   SpecGateway   - the retry loops of the gateway calls;                 *)
(*   SpecWatchdog  - the watchdog of a scheduler child and the heartbeat   *)
(*                   file;                                                 *)
(*   SpecFormat    - the price formatters of KisOrder;                     *)
(*   SpecCooldown  - the sell cooldown shared by the sell scan and the     *)
(*                   intraday stop-loss watch;                             *)
(*   SpecCancel    - the cancellation of resting orders before an order;   *)
(*   SpecScheduler - the scheduler children of both modes, the watchdog    *)
(*                   thread and the start/stop requests, and               *)
(*                   SpecSchedulerLive, the started scheduler with a       *)
(*                   running watchdog thread;                              *)
(*   SpecLedger    - the execution ledger (ExecutionHistoryStore).         *)
(* Each specification leaves the variables of the other groups unchanged.  *)
(***************************************************************************)
EXTENDS Integers, Sequences, FiniteSets, TLC

VARIABLES
    \* ---- schedule gate (engine.py _run_core, run_state_store.py) ----
    r_day,                    \* calendar day of datetime.now()
    r_min,                    \* minute of the day of datetime.now()
    run_state_file,           \* data/run_state_{mode}.json: last_scheduled_run_day, 0 = no file
    last_scheduled_run_day,   \* TradingEngine._last_scheduled_run_day[mode], 0 = no entry
    is_running,               \* TradingEngine.is_running
    rpc,                      \* position of the scheduler process inside run()
    today,                    \* local `today` of the running cycle (day of the gate)
    executed,                 \* day of the attempt -> number of cycles that reached the sell/buy scan
    aborted,                  \* days on which a cycle ended at the token wait, market gate or balance
    \* ---- buy scan of one cycle (engine.py 1525-1920, order.py 681-807) ----
    buy_order_method,         \* strategy buy_order_method of the cycle
    lpc,                      \* position inside one iteration of the candidate loop
    current_price,            \* current_price of the candidate (0: not reached)
    qty,                      \* qty sized for the candidate
    asks,                     \* asks extracted from the order book
    remaining,                \* _buy_with_ask_ladder: remaining
    used_levels,              \* _buy_with_ask_ladder: used_levels
    level_idx,                \* _buy_with_ask_ladder: level_idx
    max_ps_qty2,              \* _buy_with_ask_ladder: max_ps_qty2 (NoCap: None)
    unfilled_qty,             \* _buy_with_ask_ladder: unfilled_qty
    ladder_ret,               \* (ok, reason) returned by _buy_with_ask_ladder
    order_ctx,                \* which call site of kis_order.order is active
    attempt,                  \* KisOrder.order: attempt of the retry loop
    out,                      \* KisOrder.order: returned output ("none" or "odno")
    accepted,                 \* orders the broker accepted during the active order() call
    buy_attempts,             \* history["buy_attempts"]
    skips,                    \* history["skips"] (buy side)
    trace,                    \* history["trace"], ladder events
    filled,                   \* broker: shares filled so far of the orders whose ODNO was returned
    odno_open,                \* broker: unfilled shares of the order whose ODNO was returned last
    per_stock_budget,         \* per_stock_budget of the cycle (price units of 0.001)
    \* ---- token arbitration (auth.py), one KisAuth per process, one mode ----
    now,                      \* wall clock, seconds
    access_tokens,            \* process -> KisAuth.access_tokens[mode]
    token_meta,               \* data/token_meta_{mode}.json: next_issue_at (0: absent), reason
    lock_file,                \* data/token_issue_{mode}.lock: exists, mtime, pid
    apc,                      \* process -> position inside get_token
    lock_path,                \* process -> _issue_token: lock_path is not None
    post_at,                  \* process -> time at which its token request was sent
    sent,                     \* process -> its current get_token call has sent a token request
    ret,                      \* process -> value and return statement of its get_token call
    overlap,                  \* the current calls of the processes ran at the same time
    \* ---- guard flag of the engine of the web process (engine.py 536-541, 632-636) ----
    w_is_running,             \* TradingEngine.is_running of that instance
    wpc,                      \* thread -> position inside _run_core
    w_orders,                 \* thread -> orders its current cycle has placed
    \* ---- run record of one cycle (engine.py 543-566, 637-1959) ----
    cpc,                      \* position of the cycle inside _run_core
    cy_is_running,            \* TradingEngine.is_running of the scheduler process
    strategy,                 \* top_n, take_profit_pct, stop_loss_pct of the cycle
    usd_krw_rate,             \* fx.rate or 0.0
    allow_buy,                \* allow_buy
    my_stocks,                \* balance snapshot: symbol -> position
    buy_list,                 \* codes of analysis_result["buy"] ("": an item without a code)
    to_scan,                  \* positions the sell loop has not reached yet
    sold_symbols,             \* sold_symbols
    sell_orders_placed,       \* symbols for which the sell scan called kis_order.order
    candidates,               \* candidates (after the held filter and [:top_n])
    to_buy,                   \* candidates the buy loop has not reached yet
    history,                  \* history: status, sell_attempts, buy_attempts, skips, errors
    last_step,                \* last_step and the symbol of last_context
    appended,                 \* row ExecutionHistoryStore.append received from this cycle
    raised,                   \* an exception was raised inside the cycle
    propagated,               \* an exception left _run_core
    \* ---- PositionStore of one mode, one symbol (position_store.py) ----
    positions,                \* data["positions"][symbol]: tracked, open_date, source, qty
    missing_counts,           \* data["meta"]["missing_counts"][symbol], 0: no entry
    ps_today,                 \* calendar day of datetime.now()
    held,                     \* the symbol is in held_symbols of the latest balance response
    absent_run,               \* consecutive engine cycles that found the tracked symbol absent
    ps_op,                    \* the latest operation, its arguments, the entry before it
    \* ---- one gateway call of one process (order.py, quote.py) ----
    g_pc,                     \* position of the call: idle, send (inside the retry loop), done
    g_op,                     \* the gateway operation that is called
    g_attempt,                \* attempt of the retry loop
    headers,                  \* headers["authorization"]: the token the requests carry (0: none)
    g_cached,                 \* kis_auth.access_tokens[mode] (0: None)
    g_issued,                 \* tokens the broker has issued so far (tokens are numbered 1..)
    g_expired,                \* tokens the broker rejects as expired
    g_sent,                   \* requests of the call with their responses
    g_sleeps,                 \* time.sleep calls of the call
    g_ret,                    \* returned value of the call
    \* ---- watchdog of one mode (multi_process_scheduler.py, scheduler_state_store.py) ----
    wd_now,                   \* time.time() of the web process, seconds
    proc_alive,               \* _ModeScheduler._proc is a living child process
    child_wrote,              \* the living child has written a heartbeat since it was started
    restart_fail_count,       \* _ModeScheduler._restart_fail_count
    next_restart_at,          \* _ModeScheduler._next_restart_at
    hb_file,                  \* data/scheduler_state_{mode}.json: writer, pid, is_running, restart_count
    dash_view,                \* scheduler state shown by the dashboard (/api/status)
    wd_op,                    \* latest pass of the watchdog: what it did, which death it handled
    \* ---- price formatters of KisOrder (order.py 43-93) ----
    fm_price,                 \* the price argument as Decimal(str(price)): sign, integer part, fractional digits
    fm_unpr,                  \* string returned by _format_ovrs_ord_unpr
    fm_order,                 \* string returned by _format_order_price
    \* ---- sell cooldown (engine.py sell scan 1184-1335, stop_loss_watch 2027-2128) ----
    cd_clock,                 \* datetime.now(), in minutes
    cd_pc,                    \* "idle" | "watch" | "scan": the loop the scheduler child is in
    cd_now,                   \* `now` of stop_loss_watch (2071)
    cd_todo,                  \* symbols the running loop has not visited yet
    cd_sold,                  \* sold_symbols of the running cycle
    stop_loss_cooldown,       \* TradingEngine._stop_loss_cooldown: symbol -> datetime
    sold_at,                  \* symbol -> time its last successful sell order was answered
    last_sell,                \* the sell order submitted last: symbol, time, by, sold_at before it
    \* ---- cancellation before an order (engine.py _cancel_unfilled_for_symbol) ----
    cx_mode,                  \* "none" | "mock" | "real": mode of the running cycle
    cx_resting,               \* orders resting at the broker: rows of get_unfilled_orders
    unfilled_cache,           \* _unfilled_cache of the cycle: <<>> or <<rows>>
    cx_call,                  \* the last _cancel_unfilled_for_symbol call: for whom, rows it tried
    \* ---- scheduler children of both modes (multi_process_scheduler.py 24-296) ----
    ms_proc,                  \* mode -> _ModeScheduler._proc: "none" | "alive" | "dead"
    ms_orphans,               \* mode -> live children of the mode no _proc refers to
    ms_fail_count,            \* mode -> _restart_fail_count
    ms_restart_in,            \* mode -> seconds until _next_restart_at
    mps_started,              \* MultiProcessScheduler._started
    mps_pc,                   \* holder of MultiProcessScheduler._lock: "idle" or position in stop()
    watchdog_stop,            \* _watchdog_stop is set
    watchdog_thread,          \* _watchdog_thread: "none" or a thread
    wt_pc,                    \* thread -> "off" | "head" | "mock" | "real" | "sleep"
    no_start_since,           \* no start was requested since the last stop() began
    ms_last,                  \* the last start request: who, mode, _proc it found
    \* ---- execution ledger (execution_history_store.py) ----
    lg_rows,                  \* auto_trading_history_{mode}.json: full records, newest first
    lg_index,                 \* auto_trading_history_index_{mode}.json: summaries, newest first
    lg_details,               \* auto_trading_history_{mode}/{run_id}.json: run_id -> record
    lg_appended,              \* every record handed to append(), oldest first
    lg_got                    \* result of the last get(run_id) or list()

runVars == <<r_day, r_min, run_state_file, last_scheduled_run_day, is_running, rpc, today,
             executed, aborted>>

ladVars == <<buy_order_method, lpc, current_price, qty, asks, remaining, used_levels,
             level_idx, max_ps_qty2, unfilled_qty, ladder_ret, order_ctx, attempt, out,
             accepted, buy_attempts, skips, trace, filled, odno_open, per_stock_budget>>

brokerVars == <<filled, odno_open>>

authVars == <<now, access_tokens, token_meta, lock_file, apc, lock_path, post_at, sent, ret, overlap>>

webVars == <<w_is_running, wpc, w_orders>>

cycVars == <<cpc, cy_is_running, strategy, usd_krw_rate, allow_buy, my_stocks, buy_list,
             to_scan, sold_symbols, sell_orders_placed, candidates, to_buy, history,
             last_step, appended, raised, propagated>>

posVars == <<positions, missing_counts, ps_today, held, absent_run, ps_op>>

gwVars == <<g_pc, g_op, g_attempt, headers, g_cached, g_issued, g_expired, g_sent, g_sleeps, g_ret>>

wdVars == <<wd_now, proc_alive, child_wrote, restart_fail_count, next_restart_at, hb_file, dash_view, wd_op>>

fmVars == <<fm_price, fm_unpr, fm_order>>

cdVars == <<cd_clock, cd_pc, cd_now, cd_todo, cd_sold, stop_loss_cooldown, sold_at, last_sell>>

cxVars == <<cx_mode, cx_resting, unfilled_cache, cx_call>>

msVars == <<ms_proc, ms_orphans, ms_fail_count, ms_restart_in, mps_started, mps_pc, watchdog_stop, watchdog_thread, wt_pc, no_start_since, ms_last>>

lgVars == <<lg_rows, lg_index, lg_details, lg_appended, lg_got>>

vars == <<runVars, ladVars, authVars, webVars, cycVars, posVars, gwVars, wdVars, fmVars, cdVars, cxVars, msVars, lgVars>>

notRun == <<ladVars, authVars, webVars, cycVars, posVars, gwVars, wdVars, fmVars, cdVars, cxVars, msVars, lgVars>>
notLad == <<runVars, authVars, webVars, cycVars, posVars, gwVars, wdVars, fmVars, cdVars, cxVars, msVars, lgVars>>
notAuth == <<runVars, ladVars, webVars, cycVars, posVars, gwVars, wdVars, fmVars, cdVars, cxVars, msVars, lgVars>>
notWeb == <<runVars, ladVars, authVars, cycVars, posVars, gwVars, wdVars, fmVars, cdVars, cxVars, msVars, lgVars>>
notCyc == <<runVars, ladVars, authVars, webVars, posVars, gwVars, wdVars, fmVars, cdVars, cxVars, msVars, lgVars>>
notPos == <<runVars, ladVars, authVars, webVars, cycVars, gwVars, wdVars, fmVars, cdVars, cxVars, msVars, lgVars>>
notGw == <<runVars, ladVars, authVars, webVars, cycVars, posVars, wdVars, fmVars, cdVars, cxVars, msVars, lgVars>>
notWd == <<runVars, ladVars, authVars, webVars, cycVars, posVars, gwVars, fmVars, cdVars, cxVars, msVars, lgVars>>
notFm == <<runVars, ladVars, authVars, webVars, cycVars, posVars, gwVars, wdVars, cdVars, cxVars, msVars, lgVars>>
notCd == <<runVars, ladVars, authVars, webVars, cycVars, posVars, gwVars, wdVars, fmVars, cxVars, msVars, lgVars>>
notCx == <<runVars, ladVars, authVars, webVars, cycVars, posVars, gwVars, wdVars, fmVars, cdVars, msVars, lgVars>>
notMs == <<runVars, ladVars, authVars, webVars, cycVars, posVars, gwVars, wdVars, fmVars, cdVars, cxVars, lgVars>>
notLg == <<runVars, ladVars, authVars, webVars, cycVars, posVars, gwVars, wdVars, fmVars, cdVars, cxVars, msVars>>

(***************************************************************************)
(* Bounds                                                                  *)
(***************************************************************************)
MaxDay == 3          \* calendar days explored
MinutesPerDay == 5   \* minutes of one (shortened) calendar day

Max(a, b) == IF a >= b THEN a ELSE b
Min(a, b) == IF a <= b THEN a ELSE b

(***************************************************************************)
(* Schedule gate: TradingEngine._run_core, RunStateStore                   *)
(***************************************************************************)
ScheduleTime == 3    \* configured schedule_time (minute of the day)

\* engine.py 616-621: target-1min <= now <= target+1min, target on now's date
InScheduleWindow(m) == (ScheduleTime - 1 <= m) /\ (m <= ScheduleTime + 1)

\* run_state_store.py 23-35
get_last_scheduled_run_day_file == run_state_file

\* engine.py 34-41: memory cache first, else load the file (and cache it)
GetLastScheduledRunDay ==
    IF last_scheduled_run_day # 0 THEN last_scheduled_run_day
    ELSE get_last_scheduled_run_day_file

CacheAfterGet ==
    IF last_scheduled_run_day # 0 THEN last_scheduled_run_day
    ELSE get_last_scheduled_run_day_file

\* a mark that only updates the memory cache
MarkNoPersist(d) ==
    /\ last_scheduled_run_day' = d
    /\ UNCHANGED run_state_file

\* engine.py 43-46 with run_state_store.py 37-47
MarkScheduledRunDay(d) ==
    /\ last_scheduled_run_day' = d
    /\ run_state_file' = d

\* time passes (any step of a cycle may take time; sleeps of the loop)
RunTick ==
    /\ IF r_min + 1 < MinutesPerDay
          THEN r_min' = r_min + 1 /\ r_day' = r_day
          ELSE r_day < MaxDay /\ r_min' = 0 /\ r_day' = r_day + 1
    /\ UNCHANGED <<run_state_file, last_scheduled_run_day, is_running, rpc, today, executed, aborted>>
    /\ UNCHANGED notRun

\* engine.py 536-636: run() called by the scheduler loop, up to the guard flag
RunGate ==
    /\ rpc = "idle"
    /\ \E auto_enabled \in BOOLEAN :
         IF is_running
            THEN UNCHANGED <<last_scheduled_run_day, is_running, rpc, today>>
         ELSE IF ~auto_enabled
            THEN UNCHANGED <<last_scheduled_run_day, is_running, rpc, today>>
         ELSE IF ~InScheduleWindow(r_min)
            THEN UNCHANGED <<last_scheduled_run_day, is_running, rpc, today>>
         ELSE IF GetLastScheduledRunDay = r_day
            THEN /\ last_scheduled_run_day' = CacheAfterGet
                 /\ UNCHANGED <<is_running, rpc, today>>
         ELSE /\ last_scheduled_run_day' = CacheAfterGet
              /\ today' = r_day
              /\ is_running' = TRUE
              /\ rpc' = "token"
    /\ UNCHANGED <<r_day, r_min, run_state_file, executed, aborted>>
    /\ UNCHANGED notRun

\* a token wait that marks the day as soon as the token is there
RunTokenWaitMarks ==
    /\ rpc = "token"
    /\ \E ok \in BOOLEAN :
         IF ok THEN /\ rpc' = "market"
                    /\ MarkScheduledRunDay(r_day)
                    /\ UNCHANGED aborted
               ELSE /\ rpc' = "finalize"
                    /\ aborted' = aborted \cup {today}
                    /\ UNCHANGED <<run_state_file, last_scheduled_run_day>>
    /\ UNCHANGED <<r_day, r_min, is_running, today, executed>>
    /\ UNCHANGED notRun

\* engine.py 638-645: bounded wait for a token
RunTokenWait ==
    /\ rpc = "token"
    /\ \E ok \in BOOLEAN :
         IF ok THEN rpc' = "market" /\ UNCHANGED aborted
               ELSE rpc' = "finalize" /\ aborted' = aborted \cup {today}
    /\ UNCHANGED <<r_day, r_min, run_state_file, last_scheduled_run_day, is_running, today, executed>>
    /\ UNCHANGED notRun

\* engine.py 730-733: market-hours gate
RunMarketGate ==
    /\ rpc = "market"
    /\ \E open \in BOOLEAN :
         IF open THEN rpc' = "balance" /\ UNCHANGED aborted
                 ELSE rpc' = "finalize" /\ aborted' = aborted \cup {today}
    /\ UNCHANGED <<r_day, r_min, run_state_file, last_scheduled_run_day, is_running, today, executed>>
    /\ UNCHANGED notRun

\* engine.py 735-742: balance snapshot
RunBalance ==
    /\ rpc = "balance"
    /\ \E ok \in BOOLEAN :
         IF ok THEN rpc' = "analysis" /\ UNCHANGED <<is_running, aborted>>
               ELSE /\ rpc' = "finalize"
                    /\ is_running' = FALSE
                    /\ aborted' = aborted \cup {today}
    /\ UNCHANGED <<r_day, r_min, run_state_file, last_scheduled_run_day, today, executed>>
    /\ UNCHANGED notRun

\* engine.py 1007-1027: analysis data received, then the day is marked
RunAnalysisAndMark ==
    /\ rpc = "analysis"
    /\ MarkScheduledRunDay(r_day)
    /\ rpc' = "scan"
    /\ UNCHANGED <<r_day, r_min, is_running, today, executed, aborted>>
    /\ UNCHANGED notRun

\* engine.py 1180-1932: the sell scan and the buy scan of the cycle
RunScan ==
    /\ rpc = "scan"
    /\ executed' = [executed EXCEPT ![today] = @ + 1]
    /\ rpc' = "finalize"
    /\ UNCHANGED <<r_day, r_min, run_state_file, last_scheduled_run_day, is_running, today, aborted>>
    /\ UNCHANGED notRun

\* engine.py 1936-1950: an exception in any step of the cycle body
RunException ==
    /\ rpc \in {"token", "market", "balance", "analysis"}
    /\ rpc' = "finalize"
    /\ UNCHANGED <<r_day, r_min, run_state_file, last_scheduled_run_day, is_running, today, executed, aborted>>
    /\ UNCHANGED notRun

\* engine.py 1951-1959: finally
RunFinalize ==
    /\ rpc = "finalize"
    /\ is_running' = FALSE
    /\ rpc' = "idle"
    /\ UNCHANGED <<r_day, r_min, run_state_file, last_scheduled_run_day, today, executed, aborted>>
    /\ UNCHANGED notRun

\* the scheduler process dies and is started again (multi_process_scheduler.py
\* 33-66, 251-284): the new process has a fresh TradingEngine (engine.py 19-27)
RunRestart ==
    /\ last_scheduled_run_day' = 0
    /\ is_running' = FALSE
    /\ rpc' = "idle"
    /\ today' = 0
    /\ UNCHANGED <<r_day, r_min, run_state_file, executed, aborted>>
    /\ UNCHANGED notRun

RunFields ==
    /\ r_day = 1
    /\ r_min = 0
    /\ run_state_file = 0
    /\ last_scheduled_run_day = 0
    /\ is_running = FALSE
    /\ rpc = "idle"
    /\ today = 0
    /\ executed = [d \in 1..MaxDay |-> 0]
    /\ aborted = {}

RunNext ==
    \/ RunTick
    \/ RunGate
    \/ RunTokenWait
    \/ RunMarketGate
    \/ RunBalance
    \/ RunAnalysisAndMark
    \/ RunScan
    \/ RunException
    \/ RunFinalize
    \/ RunRestart

(***************************************************************************)
(* Buy scan: candidate loop, ask-ladder, fallback; gateway order operation *)
(***************************************************************************)
MaxQty == 2          \* largest quantity sized for a candidate
MaxAsks == 3         \* ask levels returned by the order book

NoCap == 99          \* max_ps_qty2 is None (no buyable quantity reported)

CurrentPrices == {1000}      \* current_price of a candidate (price units of 0.001)
AskPrices == {1000, 1010, 1020}
LimitBuyMaxPremiumPct == 1   \* strategy limit_buy_max_premium_pct (percent)
LimitBuyMaxLevels == 3       \* strategy limit_buy_max_levels
SlippagePermille == 5        \* strategy slippage_pct = 0.5 (percent)

\* ascending ask prices pask1..paskN of an order book, N <= MaxAsks
AskBooks ==
    {a \in UNION {[1..n -> AskPrices] : n \in 1..MaxAsks} :
        \A i \in 1..(Len(a) - 1) : a[i] <= a[i + 1]}

\* engine.py 1679
MaxPrice(cp) == IF cp > 0 THEN (cp * (100 + LimitBuyMaxPremiumPct)) \div 100 ELSE 0

\* a guard that never triggers
GuardNever(ask_price, max_price) == FALSE

\* engine.py 1705
GuardTriggered(ask_price, max_price) == max_price > 0 /\ ask_price > max_price

\* engine.py 1681
UsedLevels(n) == Max(1, Min(LimitBuyMaxLevels, n))

\* a fallback after any failed ladder
FallbackWheneverFailed(ok, reason) == ~ok

\* engine.py 1882
FallbackAllowed(ok, reason) == (~ok) /\ reason \in {"ask_api_failed", "asks_empty"}

\* engine.py 1885
SlippagePrice(cp) == (cp * (1000 + SlippagePermille)) \div 1000

\* the fill state is never taken as final
FillNeverDone(u) == FALSE

\* engine.py 1787
FillDone(u) == u <= 0

\* the residual is lost: the next level orders the original quantity
NextRemainingFull(u) == qty

\* engine.py 1852
NextRemaining(u) == u

\* order.py 735-807: outcomes of one POST of the order request
OrderOutcomes ==
    {"ok",            \* HTTP 200, rt_cd = 0, output with ODNO
     "rejected",      \* HTTP 200, rt_cd # 0
     "expired200",    \* HTTP 200, msg_cd EGW00123
     "expired500",    \* HTTP 500, msg_cd EGW00123
     "rate500",       \* HTTP 500, msg_cd EGW00201
     "http_error",    \* any other HTTP status or body
     "exc_unsent",    \* exception, the request did not reach the broker
     "exc_lost",      \* timeout after the request was sent, order not accepted
     "exc_accepted"}  \* timeout after the request was sent, order accepted

BrokerAccepts(o) == o \in {"ok", "exc_accepted"}

\* order.py 29-37, 742, 773
RetryOnExpiredToken(o, a, max_attempts) ==
    o \in {"expired200", "expired500"} /\ a < max_attempts - 1

\* order.py 793-796
RetryOnException(o, a) == o \in {"exc_unsent", "exc_lost", "exc_accepted"} /\ a < 2

\* order.py 775-777
RetryOnRateLimit(o) == o = "rate500"

LadderReturn(ok, reason) ==
    /\ ladder_ret' = [ok |-> ok, reason |-> reason]
    /\ lpc' = "after_ladder"

TraceEvent(step, lvl, q) == [step |-> step, level |-> lvl, qty |-> q]

\* engine.py 1531-1623: skips of a candidate before any order is placed
PreOrderSkipReasons ==
    {"already_held_guard", "quote_failed", "quote_invalid_last", "price_zero",
     "budget_insufficient", "buyable_query_failed", "qty_insufficient"}

\* engine.py 1498-1499: budgets of a candidate that buy 1..MaxQty shares
PerStockBudgets == {q * 1007 : q \in 1..MaxQty}

\* engine.py 1583-1585: the price the quantity is sized with
PlannedBuyPrice(method, cp) ==
    IF method = "limit_ask_ladder" THEN cp ELSE SlippagePrice(cp)

\* engine.py 1591: int(per_stock_budget // planned_buy_price)
QtyByBudget(budget, planned_buy_price) ==
    IF planned_buy_price > 0 THEN budget \div planned_buy_price ELSE 0

\* engine.py 1525-1624: the iteration reaches `if qty > 0` with a sized quantity,
\* or the candidate is skipped with a reason code
BuyBegin ==
    /\ lpc = "candidate"
    /\ \/ \E budget \in PerStockBudgets, cp \in CurrentPrices :
          \E q \in 1..QtyByBudget(budget, PlannedBuyPrice(buy_order_method, cp)) :
            /\ per_stock_budget' = budget
            /\ qty' = q
            /\ current_price' = cp
            /\ IF buy_order_method = "limit_ask_ladder"
                  THEN lpc' = "hoga" /\ UNCHANGED order_ctx
                  ELSE lpc' = "order_token" /\ order_ctx' = "slippage"
            /\ UNCHANGED skips
       \/ \E r \in PreOrderSkipReasons :
            /\ skips' = Append(skips, [reason |-> r])
            /\ lpc' = "done"
            /\ UNCHANGED <<qty, current_price, order_ctx, per_stock_budget>>
    /\ UNCHANGED <<buy_order_method, asks, remaining, used_levels, level_idx, max_ps_qty2,
                   unfilled_qty, ladder_ret, attempt, out, accepted, buy_attempts, trace>>
    /\ UNCHANGED brokerVars
    /\ UNCHANGED notLad

\* engine.py 1666-1692: order book
LadderHoga ==
    /\ lpc = "hoga"
    /\ \/ /\ LadderReturn(FALSE, "ask_api_failed")
          /\ trace' = Append(trace, TraceEvent("buy.ladder.hoga_failed", 0, 0))
          /\ UNCHANGED <<asks, remaining, used_levels, level_idx>>
       \/ /\ LadderReturn(FALSE, "asks_empty")
          /\ trace' = Append(trace, TraceEvent("buy.ladder.hoga_empty", 0, 0))
          /\ UNCHANGED <<asks, remaining, used_levels, level_idx>>
       \/ \E a \in AskBooks :
            /\ asks' = a
            /\ remaining' = qty
            /\ used_levels' = UsedLevels(Len(a))
            /\ level_idx' = 0
            /\ lpc' = "level"
            /\ UNCHANGED <<ladder_ret, trace>>
    /\ UNCHANGED <<buy_order_method, current_price, qty, max_ps_qty2, unfilled_qty,
                   order_ctx, attempt, out, accepted, buy_attempts, skips>>
    /\ UNCHANGED brokerVars
    /\ UNCHANGED per_stock_budget
    /\ UNCHANGED notLad

\* engine.py 1694-1757: head of one ladder level up to the order call
LadderLevel ==
    /\ lpc = "level"
    /\ IF level_idx >= used_levels
          THEN /\ LadderReturn(FALSE, "unfilled_remaining")
               /\ UNCHANGED <<remaining, max_ps_qty2, order_ctx, trace>>
       ELSE IF GuardTriggered(asks[level_idx + 1], MaxPrice(current_price))
          THEN /\ LadderReturn(FALSE, "guard_triggered")
               /\ trace' = Append(trace, TraceEvent("buy.ladder.guard_triggered", level_idx + 1, remaining))
               /\ UNCHANGED <<remaining, max_ps_qty2, order_ctx>>
       ELSE \E cap \in (0..MaxQty) \cup {NoCap} :
               /\ max_ps_qty2' = cap
               /\ remaining' = IF cap # NoCap THEN Min(remaining, cap) ELSE remaining
               /\ IF remaining' <= 0
                     THEN /\ LadderReturn(FALSE, "qty_insufficient")
                          /\ UNCHANGED <<order_ctx, trace>>
                     ELSE /\ lpc' = "order_token"
                          /\ order_ctx' = "ask_ladder"
                          /\ UNCHANGED <<ladder_ret, trace>>
    /\ UNCHANGED <<buy_order_method, current_price, qty, asks, used_levels, level_idx,
                   unfilled_qty, attempt, out, accepted, buy_attempts, skips>>
    /\ UNCHANGED brokerVars
    /\ UNCHANGED per_stock_budget
    /\ UNCHANGED notLad

\* order.py 692-704: token and account of the order call
OrderGetToken ==
    /\ lpc = "order_token"
    /\ accepted' = 0
    /\ attempt' = 0
    /\ \E token \in BOOLEAN :
         IF token THEN lpc' = "order_post" /\ out' = "none"
                  ELSE lpc' = "order_return" /\ out' = "none"
    /\ UNCHANGED <<buy_order_method, current_price, qty, asks, remaining, used_levels,
                   level_idx, max_ps_qty2, unfilled_qty, ladder_ret, order_ctx, buy_attempts,
                   skips, trace>>
    /\ UNCHANGED brokerVars
    /\ UNCHANGED per_stock_budget
    /\ UNCHANGED notLad

\* order.py 735-807: one pass of the retry loop
OrderPost ==
    /\ lpc = "order_post"
    /\ \E o \in OrderOutcomes :
         /\ accepted' = IF BrokerAccepts(o) THEN accepted + 1 ELSE accepted
         /\ LET q == IF order_ctx = "ask_ladder" THEN remaining ELSE qty
            IN  odno_open' = IF o = "ok" THEN q ELSE odno_open
         /\ UNCHANGED filled
         /\ IF o = "ok"
               THEN out' = "odno" /\ lpc' = "order_return" /\ UNCHANGED attempt
            ELSE IF RetryOnExpiredToken(o, attempt, 3) \/ RetryOnRateLimit(o)
                    \/ RetryOnException(o, attempt)
               THEN /\ attempt' = attempt + 1
                    /\ out' = "none"
                    /\ lpc' = IF attempt + 1 < 3 THEN "order_post" ELSE "order_return"
            ELSE out' = "none" /\ lpc' = "order_return" /\ UNCHANGED attempt
    /\ UNCHANGED <<buy_order_method, current_price, qty, asks, remaining, used_levels,
                   level_idx, max_ps_qty2, unfilled_qty, ladder_ret, order_ctx, buy_attempts,
                   skips, trace>>
    /\ UNCHANGED per_stock_budget
    /\ UNCHANGED notLad

BuyAttempt(q, p, method, lvl) ==
    [qty |-> q, price |-> p, method |-> method, level |-> lvl,
     ok |-> (out # "none")]

\* engine.py 1757-1782 (ladder), 1887-1897 (fallback), 1910-1919 (slippage):
\* the order call returned
OrderReturn ==
    /\ lpc = "order_return"
    /\ IF order_ctx = "ask_ladder"
          THEN /\ buy_attempts' = Append(buy_attempts,
                      BuyAttempt(remaining, asks[level_idx + 1], "ask_ladder", level_idx + 1))
               /\ IF out = "none"
                     THEN LadderReturn(FALSE, "order_no_missing")
                     ELSE lpc' = "fill_query" /\ UNCHANGED ladder_ret
       ELSE IF order_ctx = "slippage_fallback"
          THEN /\ buy_attempts' = Append(buy_attempts,
                      BuyAttempt(qty, SlippagePrice(current_price), "slippage_fallback", 0))
               /\ lpc' = "done"
               /\ UNCHANGED ladder_ret
       ELSE /\ buy_attempts' = Append(buy_attempts,
                      BuyAttempt(qty, SlippagePrice(current_price), "slippage", 0))
            /\ lpc' = "done"
            /\ UNCHANGED ladder_ret
    /\ UNCHANGED <<buy_order_method, current_price, qty, asks, remaining, used_levels, level_idx,
                   max_ps_qty2, unfilled_qty, order_ctx, attempt, out, accepted, skips, trace>>
    /\ UNCHANGED brokerVars
    /\ UNCHANGED per_stock_budget
    /\ UNCHANGED notLad

\* engine.py 1626-1642: nccs_qty of the order in the unfilled list; 0 if the call
\* fails or the order is not listed
UnfilledQtyByOdno == {odno_open, 0}

\* engine.py 1784-1816 with 1626-1642: fill state of the order after the wait
LadderFillQuery ==
    /\ lpc = "fill_query"
    /\ \E u \in UnfilledQtyByOdno :
         /\ unfilled_qty' = u
         /\ IF FillDone(u)
               THEN /\ LadderReturn(TRUE, "filled_or_removed")
                    /\ trace' = Append(trace, TraceEvent("buy.ladder.filled_or_removed", level_idx + 1, u))
            ELSE IF level_idx >= used_levels - 1
               THEN /\ LadderReturn(FALSE, "unfilled_left_last_level")
                    /\ trace' = Append(trace, TraceEvent("buy.ladder.unfilled_last_level_left", level_idx + 1, u))
            ELSE /\ lpc' = "cancel"
                 /\ UNCHANGED <<ladder_ret, trace>>
    /\ UNCHANGED <<buy_order_method, current_price, qty, asks, remaining, used_levels,
                   level_idx, max_ps_qty2, order_ctx, attempt, out, accepted, buy_attempts, skips>>
    /\ UNCHANGED brokerVars
    /\ UNCHANGED per_stock_budget
    /\ UNCHANGED notLad

\* order.py 809-934: the cancel request fails, or the broker cancels what is
\* still unfilled of the order (a fully filled order cannot be cancelled)
CancelResults == IF odno_open > 0 THEN {TRUE, FALSE} ELSE {FALSE}

\* engine.py 1818-1861: cancel the residual, go to the next level
LadderCancel ==
    /\ lpc = "cancel"
    /\ \E cncl \in CancelResults :
         IF ~cncl
            THEN /\ LadderReturn(FALSE, "cancel_failed")
                 /\ UNCHANGED odno_open
                 /\ trace' = Append(trace, TraceEvent("buy.ladder.cancel_failed", level_idx + 1, unfilled_qty))
                 /\ UNCHANGED <<remaining, level_idx>>
            ELSE /\ odno_open' = 0
                 /\ remaining' = NextRemaining(unfilled_qty)
                 /\ trace' = Append(trace, TraceEvent("buy.ladder.level.next", level_idx + 2, NextRemaining(unfilled_qty)))
                 /\ level_idx' = level_idx + 1
                 /\ lpc' = "level"
                 /\ UNCHANGED ladder_ret
    /\ UNCHANGED <<buy_order_method, current_price, qty, asks, used_levels, max_ps_qty2,
                   unfilled_qty, order_ctx, attempt, out, accepted, buy_attempts, skips>>
    /\ UNCHANGED filled
    /\ UNCHANGED per_stock_budget
    /\ UNCHANGED notLad

LadderFailureSilent(sk, reason) == sk

\* engine.py 1898-1901: a failed ladder without fallback leaves a skip
RecordLadderFailure(sk, reason) == Append(sk, [reason |-> "ladder_failed_no_fallback"])

\* engine.py 1881-1901: after _buy_with_ask_ladder returned
AfterLadder ==
    /\ lpc = "after_ladder"
    /\ IF FallbackAllowed(ladder_ret.ok, ladder_ret.reason)
          THEN /\ lpc' = "order_token"
               /\ order_ctx' = "slippage_fallback"
               /\ UNCHANGED skips
       ELSE IF ~ladder_ret.ok
          THEN /\ skips' = RecordLadderFailure(skips, ladder_ret.reason)
               /\ lpc' = "done"
               /\ UNCHANGED order_ctx
       ELSE /\ lpc' = "done"
            /\ UNCHANGED <<order_ctx, skips>>
    /\ UNCHANGED <<buy_order_method, current_price, qty, asks, remaining, used_levels, level_idx,
                   max_ps_qty2, unfilled_qty, ladder_ret, attempt, out, accepted, buy_attempts, trace>>
    /\ UNCHANGED brokerVars
    /\ UNCHANGED per_stock_budget
    /\ UNCHANGED notLad

\* the market fills shares of the live order
BrokerFill ==
    /\ \E f \in 1..odno_open :
         /\ odno_open' = odno_open - f
         /\ filled' = filled + f
    /\ UNCHANGED <<buy_order_method, lpc, current_price, qty, asks, remaining, used_levels,
                   level_idx, max_ps_qty2, unfilled_qty, ladder_ret, order_ctx, attempt, out,
                   accepted, buy_attempts, skips, trace>>
    /\ UNCHANGED per_stock_budget
    /\ UNCHANGED notLad

NoReturn == [ok |-> FALSE, reason |-> "none"]

LadFields ==
    /\ lpc = "candidate"
    /\ current_price = 0
    /\ qty = 0
    /\ asks = <<>>
    /\ remaining = 0
    /\ used_levels = 0
    /\ level_idx = 0
    /\ max_ps_qty2 = NoCap
    /\ unfilled_qty = 0
    /\ ladder_ret = NoReturn
    /\ order_ctx = "none"
    /\ attempt = 0
    /\ out = "none"
    /\ accepted = 0
    /\ buy_attempts = <<>>
    /\ skips = <<>>
    /\ trace = <<>>
    /\ filled = 0
    /\ odno_open = 0
    /\ per_stock_budget = 0

\* engine.py 1576: limit_ask_ladder by default in real mode, limit_slippage in mock mode
LadStart ==
    /\ buy_order_method \in {"limit_ask_ladder", "limit_slippage"}
    /\ LadFields

\* the buy scan is not running
LadIdle ==
    /\ buy_order_method = "limit_slippage"
    /\ LadFields

LadNext ==
    \/ BuyBegin
    \/ LadderHoga
    \/ LadderLevel
    \/ OrderGetToken
    \/ OrderPost
    \/ OrderReturn
    \/ LadderFillQuery
    \/ LadderCancel
    \/ AfterLadder
    \/ BrokerFill

(***************************************************************************)
(* Token arbitration: KisAuth.get_token across processes                   *)
(***************************************************************************)
MaxTicks == 5            \* clock ticks explored
ClockSteps == {5}        \* seconds by which the clock advances in one tick

Procs == {"p1", "p2"}    \* OS processes using the same mode (scheduler child, web)

ValidityMarginSec == 60  \* auth.py 75
StaleLockSec == 120      \* auth.py 236
BusyCooldownSec == 10    \* auth.py 88
FailedCooldownSec == 10  \* auth.py 127
RateCooldownSec == 65    \* auth.py 131
ErrorCooldownSec == 5    \* auth.py 140
PostTimeoutSec == 20     \* auth.py 109
ExpiresIn == {70, 75}    \* expires_in of the token response, seconds

NoToken == [token |-> FALSE, expired_at |-> 0]
NoLock == [exists |-> FALSE, mtime |-> 0]
\* a lock file left behind at time 0 by a process that was killed
LeftLock == [exists |-> TRUE, mtime |-> 0]
\* the clock reading at which the processes start
StartNow == StaleLockSec + 5
NoRet == [token |-> FALSE, site |-> "none"]

\* validity without the safety margin
TokenValidNoMargin(token_info, t) ==
    token_info.token /\ token_info.expired_at # 0 /\ t < token_info.expired_at

\* auth.py 68-78
IsTokenValid(token_info, t) ==
    token_info.token /\ token_info.expired_at # 0
        /\ t < token_info.expired_at - ValidityMarginSec

\* a cooldown check that never finds a cooldown
NeverInIssueCooldown == FALSE

\* auth.py 191-200
IsInIssueCooldown == token_meta.next_issue_at # 0 /\ now < token_meta.next_issue_at

\* auth.py 202-214
SetIssueCooldown(seconds, reason) ==
    token_meta' = [next_issue_at |-> IF seconds <= 0 THEN 0 ELSE now + seconds,
                   reason |-> reason]

\* auth.py 223-232: os.open(O_CREAT | O_EXCL)
OpenExcl(p) ==
    IF lock_file.exists
       THEN /\ apc' = [apc EXCEPT ![p] = "stat"]
            /\ UNCHANGED <<lock_file, lock_path>>
       ELSE /\ lock_file' = [exists |-> TRUE, mtime |-> now]
            /\ lock_path' = [lock_path EXCEPT ![p] = TRUE]
            /\ apc' = [apc EXCEPT ![p] = "credentials"]

Returning(p, tok, site) ==
    /\ ret' = [ret EXCEPT ![p] = [token |-> tok, site |-> site]]
    /\ apc' = [apc EXCEPT ![p] = "return"]

InCall == {"locked", "acquire", "stat", "remove", "create", "credentials", "send",
           "await", "finally"}

\* auth.py 37-55: cached token, cooldown, then the in-process lock
GetTokenStart(p) ==
    /\ apc[p] = "idle"
    /\ sent' = [sent EXCEPT ![p] = FALSE]
    /\ IF IsTokenValid(access_tokens[p], now)
          THEN Returning(p, TRUE, "cached")
       ELSE IF IsInIssueCooldown
          THEN Returning(p, FALSE, "cooldown")
       ELSE /\ apc' = [apc EXCEPT ![p] = "locked"]
            /\ UNCHANGED ret
    /\ overlap' = (apc'[p] = "locked" /\ \E q \in Procs \ {p} : apc[q] \in InCall)
    /\ UNCHANGED <<now, access_tokens, token_meta, lock_file, lock_path, post_at>>
    /\ UNCHANGED notAuth

\* auth.py 58-66: second look under the in-process lock
GetTokenRecheck(p) ==
    /\ apc[p] = "locked"
    /\ IF IsTokenValid(access_tokens[p], now)
          THEN Returning(p, TRUE, "cached")
       ELSE IF IsInIssueCooldown
          THEN Returning(p, FALSE, "cooldown")
       ELSE /\ apc' = [apc EXCEPT ![p] = "acquire"]
            /\ UNCHANGED ret
    /\ UNCHANGED <<now, access_tokens, token_meta, lock_file, lock_path, post_at, sent, overlap>>
    /\ UNCHANGED notAuth

\* auth.py 216-232: take the lock file
AcquireLock(p) ==
    /\ apc[p] = "acquire"
    /\ OpenExcl(p)
    /\ UNCHANGED <<now, access_tokens, token_meta, post_at, sent, ret, overlap>>
    /\ UNCHANGED notAuth

\* auth.py 84-89: no lock, cooldown of 10 seconds, nothing issued
LockBusy(p) ==
    /\ SetIssueCooldown(BusyCooldownSec, "issue_in_progress")
    /\ Returning(p, FALSE, "lock_busy")

\* auth.py 233-236, 248-250: age of the existing lock file
StatLock(p) ==
    /\ apc[p] = "stat"
    /\ IF lock_file.exists /\ now - lock_file.mtime > StaleLockSec
          THEN /\ apc' = [apc EXCEPT ![p] = "remove"]
               /\ UNCHANGED <<token_meta, ret>>
          ELSE LockBusy(p)
    /\ UNCHANGED <<now, access_tokens, lock_file, lock_path, post_at, sent, overlap>>
    /\ UNCHANGED notAuth

\* auth.py 237: remove the stale lock file
RemoveStaleLock(p) ==
    /\ apc[p] = "remove"
    /\ IF lock_file.exists
          THEN /\ lock_file' = NoLock
               /\ apc' = [apc EXCEPT ![p] = "create"]
               /\ UNCHANGED <<token_meta, ret>>
          ELSE LockBusy(p) /\ UNCHANGED lock_file
    /\ UNCHANGED <<now, access_tokens, lock_path, post_at, sent, overlap>>
    /\ UNCHANGED notAuth

\* auth.py 238-247: one more os.open(O_CREAT | O_EXCL)
CreateAfterRemove(p) ==
    /\ apc[p] = "create"
    /\ IF lock_file.exists
          THEN LockBusy(p) /\ UNCHANGED <<lock_file, lock_path>>
          ELSE /\ lock_file' = [exists |-> TRUE, mtime |-> now]
               /\ lock_path' = [lock_path EXCEPT ![p] = TRUE]
               /\ apc' = [apc EXCEPT ![p] = "credentials"]
               /\ UNCHANGED <<token_meta, ret>>
    /\ UNCHANGED <<now, access_tokens, post_at, sent, overlap>>
    /\ UNCHANGED notAuth

\* auth.py 90-105: credentials of the mode
Credentials(p) ==
    /\ apc[p] = "credentials"
    /\ \E configured \in BOOLEAN :
         IF configured
            THEN apc' = [apc EXCEPT ![p] = "send"] /\ UNCHANGED <<ret, lock_path>>
            ELSE /\ Returning(p, FALSE, "no_credentials")
                 /\ lock_path' = [lock_path EXCEPT ![p] = FALSE]
    /\ UNCHANGED <<now, access_tokens, token_meta, lock_file, post_at, sent, overlap>>
    /\ UNCHANGED notAuth

\* auth.py 107-109: the token request leaves the process
SendTokenRequest(p) ==
    /\ apc[p] = "send"
    /\ apc' = [apc EXCEPT ![p] = "await"]
    /\ post_at' = [post_at EXCEPT ![p] = now]
    /\ sent' = [sent EXCEPT ![p] = TRUE]
    /\ UNCHANGED <<now, access_tokens, token_meta, lock_file, lock_path, ret, overlap>>
    /\ UNCHANGED notAuth

\* auth.py 111-141: response of the token endpoint, or an exception
TokenResponse(p) ==
    /\ apc[p] = "await"
    /\ \/ \E expires_in \in ExpiresIn :
            /\ access_tokens' = [access_tokens EXCEPT
                                   ![p] = [token |-> TRUE, expired_at |-> now + expires_in]]
            /\ SetIssueCooldown(0, "issued")
            /\ ret' = [ret EXCEPT ![p] = [token |-> TRUE, site |-> "issued"]]
       \/ \E cool_sec \in {FailedCooldownSec, RateCooldownSec} :
            /\ SetIssueCooldown(cool_sec, "issue_failed")
            /\ ret' = [ret EXCEPT ![p] = [token |-> FALSE, site |-> "issue_failed"]]
            /\ UNCHANGED access_tokens
       \/ /\ SetIssueCooldown(ErrorCooldownSec, "exception")
          /\ ret' = [ret EXCEPT ![p] = [token |-> FALSE, site |-> "exception"]]
          /\ UNCHANGED access_tokens
    /\ apc' = [apc EXCEPT ![p] = "finally"]
    /\ post_at' = [post_at EXCEPT ![p] = 0]
    /\ UNCHANGED <<now, lock_file, lock_path, sent, overlap>>
    /\ UNCHANGED notAuth

\* auth.py 142-143, 254-264: finally, unlink the lock file if it exists
ReleaseLock(p) ==
    /\ apc[p] = "finally"
    /\ lock_file' = NoLock
    /\ lock_path' = [lock_path EXCEPT ![p] = FALSE]
    /\ apc' = [apc EXCEPT ![p] = "return"]
    /\ UNCHANGED <<now, access_tokens, token_meta, post_at, sent, ret, overlap>>
    /\ UNCHANGED notAuth

\* get_token hands its value to the caller
GetTokenReturn(p) ==
    /\ apc[p] = "return"
    /\ apc' = [apc EXCEPT ![p] = "idle"]
    /\ ret' = [ret EXCEPT ![p] = NoRet]
    /\ sent' = [sent EXCEPT ![p] = FALSE]
    /\ overlap' = (overlap /\ \E q \in Procs \ {p} : apc[q] # "idle")
    /\ UNCHANGED <<now, access_tokens, token_meta, lock_file, lock_path, post_at>>
    /\ UNCHANGED notAuth

\* auth.py 145-157
InvalidateToken(p) ==
    /\ apc[p] = "idle"
    /\ access_tokens[p].token
    /\ access_tokens' = [access_tokens EXCEPT ![p] = NoToken]
    /\ UNCHANGED <<now, token_meta, lock_file, apc, lock_path, post_at, sent, ret, overlap>>
    /\ UNCHANGED notAuth

\* time passes while every process is idle or waits for the token endpoint
\* (requests.post returns or raises within its timeout)
AuthTick ==
    /\ \E d \in ClockSteps :
         /\ now + d <= StartNow + 5 * MaxTicks
         /\ \A p \in Procs :
              \/ apc[p] = "idle"
              \/ apc[p] = "await" /\ now + d - post_at[p] <= PostTimeoutSec
         /\ now' = now + d
    /\ UNCHANGED <<access_tokens, token_meta, lock_file, apc, lock_path, post_at, sent, ret, overlap>>
    /\ UNCHANGED notAuth

AuthFields ==
    /\ now = StartNow
    /\ access_tokens = [p \in Procs |-> NoToken]
    /\ token_meta = [next_issue_at |-> 0, reason |-> "none"]
    /\ lock_file \in {NoLock, LeftLock}
    /\ apc = [p \in Procs |-> "idle"]
    /\ lock_path = [p \in Procs |-> FALSE]
    /\ post_at = [p \in Procs |-> 0]
    /\ sent = [p \in Procs |-> FALSE]
    /\ ret = [p \in Procs |-> NoRet]
    /\ overlap = FALSE

AuthNext ==
    \/ AuthTick
    \/ \E p \in Procs :
         \/ GetTokenStart(p)
         \/ GetTokenRecheck(p)
         \/ AcquireLock(p)
         \/ StatLock(p)
         \/ RemoveStaleLock(p)
         \/ CreateAfterRemove(p)
         \/ Credentials(p)
         \/ SendTokenRequest(p)
         \/ TokenResponse(p)
         \/ ReleaseLock(p)
         \/ GetTokenReturn(p)
         \/ InvalidateToken(p)

(***************************************************************************)
(* Guard flag: _run_core called from several threads of one process        *)
(***************************************************************************)
MaxOrders == 1           \* orders one cycle places at most

\* threads of the web process that run a manual cycle (app.py 1209-1216, 1593-1603)
Threads == {"t1", "t2", "t3"}

\* positions of a thread between `self.is_running = True` and the end of finally
BodyPcs == {"token", "balance", "scan", "finally"}

\* engine.py 539-541: the flag is read; a set flag ends the call
WebCall(t) ==
    /\ wpc[t] = "idle"
    /\ IF w_is_running
          THEN UNCHANGED wpc
          ELSE wpc' = [wpc EXCEPT ![t] = "entered"]
    /\ w_orders' = [w_orders EXCEPT ![t] = 0]
    /\ UNCHANGED w_is_running
    /\ UNCHANGED notWeb

\* engine.py 543-633: the run record is built, then the flag is set
WebSetRunning(t) ==
    /\ wpc[t] = "entered"
    /\ w_is_running' = TRUE
    /\ wpc' = [wpc EXCEPT ![t] = "token"]
    /\ UNCHANGED w_orders
    /\ UNCHANGED notWeb

\* engine.py 637-733: token wait, strategy, FX, market-hours gate
WebToken(t) ==
    /\ wpc[t] = "token"
    /\ \E ok \in BOOLEAN : wpc' = [wpc EXCEPT ![t] = IF ok THEN "balance" ELSE "finally"]
    /\ UNCHANGED <<w_is_running, w_orders>>
    /\ UNCHANGED notWeb

\* engine.py 735-742: a failed balance fetch clears the flag before the return
WebBalance(t) ==
    /\ wpc[t] = "balance"
    /\ \E ok \in BOOLEAN :
         IF ok THEN wpc' = [wpc EXCEPT ![t] = "scan"] /\ UNCHANGED w_is_running
               ELSE wpc' = [wpc EXCEPT ![t] = "finally"] /\ w_is_running' = FALSE
    /\ UNCHANGED w_orders
    /\ UNCHANGED notWeb

\* engine.py 1180-1932: sell scan and buy scan place orders
WebScan(t) ==
    /\ wpc[t] = "scan"
    /\ \E n \in 0..MaxOrders : w_orders' = [w_orders EXCEPT ![t] = n]
    /\ wpc' = [wpc EXCEPT ![t] = "finally"]
    /\ UNCHANGED w_is_running
    /\ UNCHANGED notWeb

\* engine.py 1951-1959
WebFinally(t) ==
    /\ wpc[t] = "finally"
    /\ w_is_running' = FALSE
    /\ wpc' = [wpc EXCEPT ![t] = "idle"]
    /\ UNCHANGED w_orders
    /\ UNCHANGED notWeb

WebFields ==
    /\ w_is_running = FALSE
    /\ wpc = [t \in Threads |-> "idle"]
    /\ w_orders = [t \in Threads |-> 0]

WebNext ==
    \E t \in Threads :
        \/ WebCall(t)
        \/ WebSetRunning(t)
        \/ WebToken(t)
        \/ WebBalance(t)
        \/ WebScan(t)
        \/ WebFinally(t)

(***************************************************************************)
(* One cycle of the scheduler process: run record, sell scan, buy gate     *)
(***************************************************************************)
MaxHeldQty == 1          \* largest ord_psbl_qty of a held position

Symbols == {"AAA", "BBB"}

\* order of the rows of output1 in the balance response
SymbolOrder == <<"AAA", "BBB">>

\* fx.rate or 0.0 (engine.py 672): 0 stands for "no positive rate"
FxRates == {0, 1300}

\* strategy values of a cycle (engine.py 646-660)
TopNs == {1, 2}
TakeProfitPcts == {-5, 5}
StopLossPcts == {-3}

\* evlu_pfls_rt of a position
ProfitRates == {-4, 0, 6}

\* engine.py 767-773 plus what the sell scan reads about a position:
\* cooldown: _stop_loss_cooldown holds the symbol for less than 5 minutes (1198-1201)
\* hold_exceeded: max_hold_days > 0, open date known, days_held >= max_hold_days (1280-1303)
Positions ==
    [ord_psbl_qty : {0, MaxHeldQty}, profit_rate : ProfitRates,
     cooldown : BOOLEAN, hold_exceeded : BOOLEAN]

\* engine.py 746-773: my_stocks keeps the rows with qty > 0.  Cooldown and holding
\* period are varied for the first row only.
Snapshots ==
    {snap \in UNION {[H -> Positions] : H \in SUBSET Symbols} :
        \A s \in DOMAIN snap :
            s # SymbolOrder[1] => ~snap[s].cooldown /\ ~snap[s].hold_exceeded}

\* analysis_data["buy"], by the code each item normalizes to (engine.py 1372-1391)
BuyLists == {<<>>, <<"">>, <<"AAA">>, <<"BBB">>, <<"AAA", "BBB">>, <<"BBB", "AAA">>}

\* engine.py 546-566
HistoryNew ==
    [status |-> "unknown", sell_attempts |-> <<>>, buy_attempts |-> <<>>,
     skips |-> <<>>, errors |-> <<>>]

NoRow == [HistoryNew EXCEPT !.status = "none"]

\* engine.py 577-583
StepInit == [step |-> "init", symbol |-> ""]

\* positions of _run_core between `try:` (637) and the status summary (1932)
TryPcs == {"token", "strategy", "market", "balance", "analysis", "sell", "buy_gate", "buy",
           "summary"}

CaughtOnlyInScan(pc) == pc \in {"sell", "buy"}

\* engine.py 637, 1936: the except clause covers every statement of the body
Caught(pc) == pc \in TryPcs

AllowBuyAlways(rate) == TRUE

\* engine.py 679-681
AllowBuy(rate) == rate > 0

\* engine.py 1192-1203: duplicate-sale / cooldown guard of the sell loop
SellGuard(symbol, info) ==
    IF symbol \in sold_symbols THEN "already_sold_in_run"
    ELSE IF info.cooldown THEN "sell_cooldown_recent"
    ELSE "none"

SellReasonStopLossFirst(info) ==
    IF info.profit_rate <= strategy.stop_loss_pct THEN "stop_loss"
    ELSE IF info.profit_rate >= strategy.take_profit_pct THEN "take_profit"
    ELSE IF info.hold_exceeded THEN "max_hold_days"
    ELSE "none"

\* engine.py 1211, 1245, 1280-1303: the conditions in the order the loop tests them
SellReason(info) ==
    IF info.profit_rate >= strategy.take_profit_pct THEN "take_profit"
    ELSE IF info.profit_rate <= strategy.stop_loss_pct THEN "stop_loss"
    ELSE IF info.hold_exceeded THEN "max_hold_days"
    ELSE "none"

\* engine.py 1161-1178: (out, method) pairs _submit_sell_market_first can return
SellOutcomes ==
    {[ok |-> TRUE, method |-> "market_0"],
     [ok |-> TRUE, method |-> "limit_fallback"],
     [ok |-> FALSE, method |-> "limit_fallback"],
     [ok |-> FALSE, method |-> "price_unavailable"]}

\* engine.py 1220, 1254, 1311
PriceUnavailableReason(reason) ==
    IF reason = "take_profit" THEN "take_profit_price_unavailable"
    ELSE IF reason = "stop_loss" THEN "stop_loss_price_unavailable"
    ELSE "max_hold_price_unavailable"

EarlyStatusAlwaysNoTrade(h) == "no_trade"

\* engine.py 1365, 1395, 1515, 1521
EarlyStatus(h) == IF h.sell_attempts # <<>> THEN "partial" ELSE "no_trade"

AnyOk(attempts) == \E i \in 1..Len(attempts) : attempts[i].ok

\* engine.py 1924-1931
SummaryStatus(h) ==
    IF AnyOk(h.buy_attempts) \/ AnyOk(h.sell_attempts) THEN "success"
    ELSE IF h.buy_attempts # <<>> \/ h.sell_attempts # <<>> \/ h.skips # <<>> \/ h.errors # <<>>
         THEN "partial"
    ELSE "no_trade"

Take(seq, n) == SubSeq(seq, 1, IF Len(seq) < n THEN Len(seq) ELSE n)

CandidatesNoTruncate(normalized_buy) ==
    SelectSeq(normalized_buy,
              LAMBDA code : code \notin DOMAIN my_stocks \/ code \in sold_symbols)

\* engine.py 1403-1406
Candidates(normalized_buy) ==
    Take(SelectSeq(normalized_buy,
                   LAMBDA code : code \notin DOMAIN my_stocks \/ code \in sold_symbols),
         strategy.top_n)

\* engine.py 1546-1901: what one candidate leaves on the run record
\* (the order placement itself is the subject of the buy scan model above)
BuyOutcomes ==
    {[kind |-> "skip", reason |-> "quote_failed", step |-> "buy.quote.current"],
     [kind |-> "skip", reason |-> "qty_insufficient", step |-> "buy.buyable"],
     [kind |-> "attempt_ok", reason |-> "", step |-> "buy.buyable"],
     [kind |-> "attempt_failed", reason |-> "", step |-> "buy.buyable"]}

\* engine.py 639-645: the token wait; a timeout ends the cycle with status error
CycToken ==
    /\ cpc = "token"
    /\ \E ok \in BOOLEAN :
         IF ok THEN cpc' = "strategy" /\ UNCHANGED history
               ELSE cpc' = "finally" /\ history' = [history EXCEPT !.status = "error"]
    /\ UNCHANGED <<cy_is_running, strategy, usd_krw_rate, allow_buy, my_stocks, buy_list,
                   to_scan, sold_symbols, sell_orders_placed, candidates, to_buy,
                   last_step, appended, raised, propagated>>
    /\ UNCHANGED notCyc

\* engine.py 646-728: strategy values, FX rate, allow_buy
CycStrategy ==
    /\ cpc = "strategy"
    /\ \E n \in TopNs, tp \in TakeProfitPcts, sl \in StopLossPcts :
         strategy' = [top_n |-> n, take_profit_pct |-> tp, stop_loss_pct |-> sl]
    /\ \E rate \in FxRates :
         /\ usd_krw_rate' = rate
         /\ allow_buy' = AllowBuy(rate)
         /\ history' =
              IF rate <= 0
                 THEN [history EXCEPT !.errors =
                          Append(@, [kind |-> "fx_rate_unavailable", step |-> "", symbol |-> ""])]
                 ELSE history
    /\ cpc' = "market"
    /\ UNCHANGED <<cy_is_running, my_stocks, buy_list, to_scan, sold_symbols,
                   sell_orders_placed, candidates, to_buy, last_step, appended, raised,
                   propagated>>
    /\ UNCHANGED notCyc

\* engine.py 730-733: market-hours gate
CycMarket ==
    /\ cpc = "market"
    /\ \E open \in BOOLEAN : cpc' = IF open THEN "balance" ELSE "finally"
    /\ UNCHANGED <<cy_is_running, strategy, usd_krw_rate, allow_buy, my_stocks, buy_list,
                   to_scan, sold_symbols, sell_orders_placed, candidates, to_buy, history,
                   last_step, appended, raised, propagated>>
    /\ UNCHANGED notCyc

\* engine.py 735-773: balance fetch and the snapshot of the held positions
CycBalance ==
    /\ cpc = "balance"
    /\ \/ /\ cy_is_running' = FALSE
          /\ cpc' = "finally"
          /\ UNCHANGED <<my_stocks, to_scan>>
       \/ /\ \E snap \in Snapshots :
               /\ my_stocks' = snap
               /\ to_scan' = SelectSeq(SymbolOrder, LAMBDA s : s \in DOMAIN snap)
          /\ cpc' = "analysis"
          /\ UNCHANGED cy_is_running
    /\ UNCHANGED <<strategy, usd_krw_rate, allow_buy, buy_list, sold_symbols,
                   sell_orders_placed, candidates, to_buy, history, last_step, appended,
                   raised, propagated>>
    /\ UNCHANGED notCyc

\* engine.py 1007-1030: the buy list of the analysis result
CycAnalysis ==
    /\ cpc = "analysis"
    /\ buy_list' \in BuyLists
    /\ cpc' = "sell"
    /\ UNCHANGED <<cy_is_running, strategy, usd_krw_rate, allow_buy, my_stocks, to_scan,
                   sold_symbols, sell_orders_placed, candidates, to_buy, history, last_step,
                   appended, raised, propagated>>
    /\ UNCHANGED notCyc

\* engine.py 1184-1335: one iteration of the sell loop
CycSell ==
    /\ cpc = "sell"
    /\ to_scan # <<>>
    /\ LET symbol == Head(to_scan)
           info == my_stocks[symbol]
           guard == SellGuard(symbol, info)
           reason == SellReason(info)
           Skip(r) == [side |-> "sell", symbol |-> symbol, reason |-> r]
       IN  IF guard # "none"
              THEN /\ history' = [history EXCEPT !.skips = Append(@, Skip(guard))]
                   /\ UNCHANGED <<sold_symbols, sell_orders_placed>>
           ELSE IF info.ord_psbl_qty <= 0
              THEN /\ history' = [history EXCEPT !.skips = Append(@, Skip("sell_qty_unavailable"))]
                   /\ UNCHANGED <<sold_symbols, sell_orders_placed>>
           ELSE IF reason = "none"
              THEN UNCHANGED <<history, sold_symbols, sell_orders_placed>>
           ELSE \E o \in SellOutcomes :
                   /\ sell_orders_placed' = sell_orders_placed \cup {symbol}
                   /\ IF ~o.ok /\ o.method = "price_unavailable"
                         THEN history' = [history EXCEPT !.skips =
                                             Append(@, Skip(PriceUnavailableReason(reason)))]
                         ELSE history' = [history EXCEPT !.sell_attempts =
                                             Append(@, [symbol |-> symbol,
                                                        qty |-> info.ord_psbl_qty,
                                                        reason |-> reason,
                                                        method |-> o.method,
                                                        ok |-> o.ok])]
                   /\ sold_symbols' = IF o.ok THEN sold_symbols \cup {symbol} ELSE sold_symbols
    /\ to_scan' = Tail(to_scan)
    /\ UNCHANGED cpc
    /\ UNCHANGED <<cy_is_running, strategy, usd_krw_rate, allow_buy, my_stocks, buy_list,
                   candidates, to_buy, last_step, appended, raised, propagated>>
    /\ UNCHANGED notCyc

\* engine.py 1337-1523: the gate in front of the buy loop
CycBuyGate ==
    /\ cpc = "sell"
    /\ to_scan = <<>>
    /\ LET normalized_buy == SelectSeq(buy_list, LAMBDA code : code # "")
           cands == Candidates(normalized_buy)
           Return == /\ history' = [history EXCEPT !.status = EarlyStatus(history)]
                     /\ cpc' = "finally"
       IN  IF buy_list = <<>>
              THEN cpc' = "summary" /\ UNCHANGED <<history, candidates, to_buy>>
           ELSE IF ~allow_buy
              THEN Return /\ UNCHANGED <<candidates, to_buy>>
           ELSE IF normalized_buy = <<>>
              THEN Return /\ UNCHANGED <<candidates, to_buy>>
           ELSE IF cands = <<>>
              THEN Return /\ candidates' = cands /\ UNCHANGED to_buy
           ELSE \E budget_ok \in BOOLEAN :
                   /\ candidates' = cands
                   /\ IF budget_ok
                         THEN cpc' = "buy" /\ to_buy' = cands /\ UNCHANGED history
                         ELSE Return /\ UNCHANGED to_buy
    /\ UNCHANGED <<cy_is_running, strategy, usd_krw_rate, allow_buy, my_stocks, buy_list,
                   to_scan, sold_symbols, sell_orders_placed, last_step, appended, raised,
                   propagated>>
    /\ UNCHANGED notCyc

\* engine.py 1525-1920: one iteration of the buy loop
CycBuy ==
    /\ cpc = "buy"
    /\ to_buy # <<>>
    /\ LET symbol == Head(to_buy)
       IN  IF symbol \in DOMAIN my_stocks /\ symbol \notin sold_symbols
              THEN /\ history' = [history EXCEPT !.skips =
                          Append(@, [side |-> "buy", symbol |-> symbol,
                                     reason |-> "already_held_guard"])]
                   /\ UNCHANGED last_step
              ELSE \E o \in BuyOutcomes :
                   /\ last_step' = [step |-> o.step, symbol |-> symbol]
                   /\ IF o.kind = "skip"
                         THEN history' = [history EXCEPT !.skips =
                                 Append(@, [side |-> "buy", symbol |-> symbol,
                                            reason |-> o.reason])]
                         ELSE history' = [history EXCEPT !.buy_attempts =
                                 Append(@, [symbol |-> symbol, ok |-> (o.kind = "attempt_ok")])]
    /\ to_buy' = Tail(to_buy)
    /\ UNCHANGED cpc
    /\ UNCHANGED <<cy_is_running, strategy, usd_krw_rate, allow_buy, my_stocks, buy_list,
                   to_scan, sold_symbols, sell_orders_placed, candidates, appended, raised,
                   propagated>>
    /\ UNCHANGED notCyc

\* the buy loop has run out of candidates
CycBuyEnd ==
    /\ cpc = "buy"
    /\ to_buy = <<>>
    /\ cpc' = "summary"
    /\ UNCHANGED <<cy_is_running, strategy, usd_krw_rate, allow_buy, my_stocks, buy_list,
                   to_scan, sold_symbols, sell_orders_placed, candidates, to_buy, history,
                   last_step, appended, raised, propagated>>
    /\ UNCHANGED notCyc

\* engine.py 1922-1932: status summary
CycSummary ==
    /\ cpc = "summary"
    /\ history' = [history EXCEPT !.status = SummaryStatus(history)]
    /\ cpc' = "finally"
    /\ UNCHANGED <<cy_is_running, strategy, usd_krw_rate, allow_buy, my_stocks, buy_list,
                   to_scan, sold_symbols, sell_orders_placed, candidates, to_buy, last_step,
                   appended, raised, propagated>>
    /\ UNCHANGED notCyc

\* engine.py 1936-1950: an exception raised by any statement of the body.
\* Inside the buy loop the failing statement may come before or after _set_step.
CycException ==
    /\ cpc \in TryPcs
    /\ raised' = TRUE
    /\ IF Caught(cpc)
          THEN /\ \E st \in {last_step} \cup
                            (IF cpc = "buy" /\ to_buy # <<>>
                                THEN {[step |-> "buy.quote.current", symbol |-> Head(to_buy)],
                                      [step |-> "buy.buyable", symbol |-> Head(to_buy)]}
                                ELSE {}) :
                    /\ last_step' = st
                    /\ history' = [history EXCEPT
                          !.status = "error",
                          !.errors = Append(@, [kind |-> "exception", step |-> st.step,
                                                symbol |-> st.symbol])]
               /\ cpc' = "finally"
               /\ UNCHANGED propagated
          ELSE /\ propagated' = TRUE
               /\ cpc' = "done"
               /\ UNCHANGED <<history, last_step>>
    /\ UNCHANGED <<cy_is_running, strategy, usd_krw_rate, allow_buy, my_stocks, buy_list,
                   to_scan, sold_symbols, sell_orders_placed, candidates, to_buy, appended>>
    /\ UNCHANGED notCyc

FlagStaysSet == TRUE

\* engine.py 1959: self.is_running = False
FlagAfterFinally == FALSE

\* engine.py 1951-1959: the row is handed to the ledger, the guard flag is cleared
CycFinally ==
    /\ cpc = "finally"
    /\ appended' = history
    /\ cy_is_running' = FlagAfterFinally
    /\ cpc' = "done"
    /\ UNCHANGED <<strategy, usd_krw_rate, allow_buy, my_stocks, buy_list, to_scan,
                   sold_symbols, sell_orders_placed, candidates, to_buy, history, last_step,
                   raised, propagated>>
    /\ UNCHANGED notCyc

\* the scheduler process before its first tick
CycFields ==
    /\ cpc = "idle"
    /\ cy_is_running = FALSE
    /\ strategy = [top_n |-> 1, take_profit_pct |-> 5, stop_loss_pct |-> -3]
    /\ usd_krw_rate = 0
    /\ allow_buy = TRUE
    /\ my_stocks = <<>>
    /\ buy_list = <<>>
    /\ to_scan = <<>>
    /\ sold_symbols = {}
    /\ sell_orders_placed = {}
    /\ candidates = <<>>
    /\ to_buy = <<>>
    /\ history = HistoryNew
    /\ last_step = StepInit
    /\ appended = NoRow
    /\ raised = FALSE
    /\ propagated = FALSE

\* multi_process_scheduler.py 136-209: the loop sleeps and calls run() again, whether
\* run() returned or raised.  engine.py 543-636: a call that passes the gates starts
\* with a new record and sets the guard flag
SchedulerTick ==
    /\ cpc \in {"idle", "done"}
    /\ cpc' = "token"
    /\ cy_is_running' = TRUE
    /\ strategy' = [top_n |-> 1, take_profit_pct |-> 5, stop_loss_pct |-> -3]
    /\ usd_krw_rate' = 0
    /\ allow_buy' = TRUE
    /\ my_stocks' = <<>>
    /\ buy_list' = <<>>
    /\ to_scan' = <<>>
    /\ sold_symbols' = {}
    /\ sell_orders_placed' = {}
    /\ candidates' = <<>>
    /\ to_buy' = <<>>
    /\ history' = HistoryNew
    /\ last_step' = StepInit
    /\ appended' = NoRow
    /\ raised' = FALSE
    /\ propagated' = FALSE
    /\ UNCHANGED notCyc

CycNext ==
    \/ CycToken
    \/ CycStrategy
    \/ CycMarket
    \/ CycBalance
    \/ CycAnalysis
    \/ CycSell
    \/ CycBuyGate
    \/ CycBuy
    \/ CycBuyEnd
    \/ CycSummary
    \/ CycException
    \/ CycFinally
    \/ SchedulerTick

(***************************************************************************)
(* PositionStore: open date and absence count of one symbol                *)
(***************************************************************************)
MaxPsDay == 3            \* calendar days explored
MaxPsQty == 2            \* largest ovrs_cblc_qty of a balance row
MaxTokenIssues == 2      \* tokens the broker issues in the explored period
MaxWdTime == 16          \* seconds of watchdog time explored
MaxFracLen == 9          \* fractional digits of a price passed to the formatters
MaxCdTime == 6           \* minutes of scheduler-child time explored for the sell cooldown
MaxRestartFails == 2     \* consecutive failed restarts counted (the backoff is capped anyway)
MaxEntries == 2          \* max_entries of the ledger (2000 in the program), scaled down
MaxAppends == 4          \* runs appended to the ledger

\* rows of output1 about the symbol: no row, or a row with its ovrs_cblc_qty
BalanceRows ==
    {[present |-> FALSE, qty |-> 0]} \cup {[present |-> TRUE, qty |-> q] : q \in 0..MaxPsQty}

\* position_store.py 58-76: no entry for the symbol (open_date 0: no date)
NoPosition == [tracked |-> FALSE, open_date |-> 0, source |-> "detect", qty |-> 0]

\* position_store.py 117: an api date replaces a detect date that is not later
ApiOverwrites(new_date, cur_date) == cur_date = 0 \/ new_date >= cur_date

NotEarlierAlways(new_date, cur_date) == TRUE

\* position_store.py 126: the stored date is replaced by a date that is not earlier
NotEarlier(new_date, cur_date) == cur_date = 0 \/ new_date >= cur_date

\* position_store.py 53-91: resulting entry of upsert(symbol, q)
Upsert(pos, q, day) ==
    IF q <= 0 THEN NoPosition
    ELSE IF ~pos.tracked
       THEN [tracked |-> TRUE, open_date |-> day, source |-> "detect", qty |-> q]
    ELSE IF q > pos.qty /\ pos.source # "api"
       THEN [pos EXCEPT !.open_date = day, !.source = "detect", !.qty = q]
    ELSE [pos EXCEPT !.qty = q]

\* position_store.py 101-129: resulting entry of set_open_date(symbol, d, src);
\* setdefault creates the entry when there is none
SetOpenDate(pos, d, src) ==
    LET cur == [pos EXCEPT !.tracked = TRUE]
    IN  IF src = "api" /\ pos.source # "api"
           THEN IF ApiOverwrites(d, pos.open_date)
                   THEN [cur EXCEPT !.open_date = d, !.source = "api"]
                   ELSE cur
        ELSE IF NotEarlier(d, pos.open_date)
           THEN [cur EXCEPT !.open_date = d, !.source = src]
        ELSE cur

\* engine.py 782: `if miss >= 2`
MissingLimit == 2

\* engine.py 750-783: the balance rows are written to the store, then every tracked
\* symbol that is not in my_stocks is marked missing and removed at the limit
EngineSnapshot ==
    \E row \in BalanceRows :
        LET in_my_stocks == row.present /\ row.qty > 0
            after_rows == IF row.present THEN Upsert(positions, row.qty, ps_today)
                                         ELSE positions
            cleared == row.present
            count == IF cleared THEN 0 ELSE missing_counts
            miss == count + 1
        IN  /\ IF after_rows.tracked /\ ~in_my_stocks
                  THEN IF miss >= MissingLimit
                          THEN positions' = NoPosition /\ missing_counts' = 0
                          ELSE positions' = after_rows /\ missing_counts' = miss
                  ELSE positions' = after_rows /\ missing_counts' = count
            /\ held' = in_my_stocks
            /\ absent_run' = IF in_my_stocks \/ ~after_rows.tracked THEN 0
                             ELSE IF absent_run < MissingLimit THEN absent_run + 1
                             ELSE absent_run
            /\ ps_op' = [op |-> "engine_snapshot", present |-> in_my_stocks, date |-> 0,
                         qty |-> row.qty, prev |-> positions]
            /\ UNCHANGED ps_today
            /\ UNCHANGED notPos

\* engine.py 943-947, 993 and app.py 603-605: open date taken from the order history,
\* for a symbol of held_symbols
ApiReconcile ==
    /\ held
    /\ \E d \in 1..ps_today :
         /\ positions' = SetOpenDate(positions, d, "api")
         /\ ps_op' = [op |-> "set_open_date_api", present |-> TRUE, date |-> d, qty |-> 0,
                      prev |-> positions]
    /\ UNCHANGED <<missing_counts, ps_today, held, absent_run>>
    /\ UNCHANGED notPos

\* engine.py 1786-1792: a ladder order of the symbol left the unfilled list
BuyExec ==
    /\ positions' = SetOpenDate(positions, ps_today, "buy_exec")
    /\ ps_op' = [op |-> "set_open_date_buy_exec", present |-> TRUE, date |-> ps_today,
                 qty |-> 0, prev |-> positions]
    /\ absent_run' = IF positions.tracked THEN absent_run ELSE 0
    /\ UNCHANGED <<missing_counts, ps_today, held>>
    /\ UNCHANGED notPos

\* app.py 493-511 (GET /api/status): held rows are upserted, every other tracked
\* symbol is removed at once
StatusSync ==
    \E row \in BalanceRows :
        LET in_held == row.present /\ row.qty > 0
        IN  /\ positions' = IF in_held THEN Upsert(positions, row.qty, ps_today)
                            ELSE NoPosition
            /\ missing_counts' = IF in_held \/ positions.tracked THEN 0 ELSE missing_counts
            /\ held' = in_held
            /\ ps_op' = [op |-> "status_sync", present |-> in_held, date |-> 0,
                         qty |-> row.qty, prev |-> positions]
            /\ absent_run' = IF positions.tracked /\ in_held THEN absent_run ELSE 0
            /\ UNCHANGED ps_today
            /\ UNCHANGED notPos

\* the calendar day changes
PsNextDay ==
    /\ ps_today < MaxPsDay
    /\ ps_today' = ps_today + 1
    /\ ps_op' = [op |-> "next_day", present |-> FALSE, date |-> 0, qty |-> 0,
                 prev |-> positions]
    /\ UNCHANGED <<positions, missing_counts, held, absent_run>>
    /\ UNCHANGED notPos

\* position_store.py 23-29: a new store file
PosFields ==
    /\ positions = NoPosition
    /\ missing_counts = 0
    /\ ps_today = 1
    /\ held = FALSE
    /\ absent_run = 0
    /\ ps_op = [op |-> "load", present |-> FALSE, date |-> 0, qty |-> 0, prev |-> NoPosition]

PosNext ==
    \/ EngineSnapshot
    \/ ApiReconcile
    \/ BuyExec
    \/ StatusSync
    \/ PsNextDay

(***************************************************************************)
(* Gateway calls: the retry loops of KisOrder and KisQuote                 *)
(***************************************************************************)
GwOps == {"get_balance", "order", "revise_cancel_order", "get_unfilled_orders",
          "get_current_price"}

\* `for attempt in range(n)` of each operation
MaxAttempts(op) ==
    CASE op = "get_balance" -> 3
      [] op = "order" -> 3
      [] op = "get_current_price" -> 3
      [] op = "revise_cancel_order" -> 2
      [] op = "get_unfilled_orders" -> 2

\* the branches that test msg_cd == "EGW00201": get_balance in the 200 and the
\* 500 body, order and get_current_price in the 500 body only, revise_cancel_order
\* and get_unfilled_orders nowhere
RetriesRateLimit(op, status) ==
    \/ op = "get_balance" /\ status \in {200, 500}
    \/ op \in {"order", "get_current_price"} /\ status = 500

\* get_balance alone retries OPSQ2000 of a 200 body, while attempt < 2
RetriesAccountCheck(op, status, a) == op = "get_balance" /\ status = 200 /\ a < 2

\* _is_expired_token_response / _retry_on_expired_token
GwRetryOnExpiredToken(msg_cd, a, max_attempts) == msg_cd = "EGW00123" /\ a < max_attempts - 1

\* responses the broker can give to a request that carries `token`; status 0
\* stands for requests raising (timeout, connection error)
GwResponses(token) ==
    IF token \in g_expired
    THEN {[status |-> s, msg_cd |-> "EGW00123"] : s \in {200, 500}}
    ELSE {[status |-> 0, msg_cd |-> ""], [status |-> 404, msg_cd |-> ""]}
         \cup {[status |-> 200, msg_cd |-> c] : c \in {"0", "EGW00201", "OPSQ2000", "OTHER"}}
         \cup {[status |-> 500, msg_cd |-> c] : c \in {"EGW00201", "OTHER"}}

\* one pass of the loop body: what the code does with the response of attempt a
GwHandle(op, a, r) ==
    LET max_attempts == MaxAttempts(op)
        again(inval) == [next |-> "continue", sleep |-> TRUE, invalidate |-> inval]
        giveup == [next |-> "None", sleep |-> FALSE, invalidate |-> FALSE]
    IN  IF r.status = 0
        THEN IF a < max_attempts - 1 THEN again(FALSE) ELSE giveup
        ELSE IF r.status \in {200, 500} /\ GwRetryOnExpiredToken(r.msg_cd, a, max_attempts)
        THEN again(TRUE)
        ELSE IF r.status = 200 /\ r.msg_cd = "0"
        THEN [next |-> "output", sleep |-> FALSE, invalidate |-> FALSE]
        ELSE IF r.msg_cd = "EGW00201" /\ RetriesRateLimit(op, r.status)
        THEN again(FALSE)
        ELSE IF r.msg_cd = "OPSQ2000" /\ RetriesAccountCheck(op, r.status, a)
        THEN again(FALSE)
        ELSE giveup

\* the head of a gateway function: token = kis_auth.get_token(mode), then
\* `if not token: return None`, then headers are built from that token
GwCall ==
    /\ g_pc = "idle"
    /\ \E op \in GwOps, issue_ok \in BOOLEAN :
         LET reissue == g_cached = 0 /\ issue_ok /\ g_issued < MaxTokenIssues
             token == IF g_cached # 0 THEN g_cached
                      ELSE IF reissue THEN g_issued + 1 ELSE 0
         IN  /\ g_op' = op
             /\ g_issued' = IF reissue THEN g_issued + 1 ELSE g_issued
             /\ g_cached' = token
             /\ headers' = token
             /\ g_pc' = IF token = 0 THEN "done" ELSE "send"
             /\ g_ret' = IF token = 0 THEN "None" ELSE "running"
    /\ g_attempt' = 0
    /\ g_sent' = <<>>
    /\ g_sleeps' = 0
    /\ UNCHANGED g_expired
    /\ UNCHANGED notGw

\* one request of the retry loop and the handling of its response
GwAttempt ==
    /\ g_pc = "send"
    /\ \E r \in GwResponses(headers) :
         LET h == GwHandle(g_op, g_attempt, r)
             loop_ends == h.next = "continue" /\ g_attempt + 1 >= MaxAttempts(g_op)
         IN  /\ g_sent' = Append(g_sent, [attempt |-> g_attempt, token |-> headers,
                                          status |-> r.status, msg_cd |-> r.msg_cd])
             /\ g_sleeps' = IF h.sleep THEN g_sleeps + 1 ELSE g_sleeps
             /\ g_cached' = IF h.invalidate THEN 0 ELSE g_cached
             /\ g_attempt' = IF h.next = "continue" THEN g_attempt + 1 ELSE g_attempt
             /\ g_pc' = IF h.next = "continue" /\ ~loop_ends THEN "send" ELSE "done"
             /\ g_ret' = IF h.next = "output" THEN "output"
                         ELSE IF h.next = "continue" /\ ~loop_ends THEN "running" ELSE "None"
    /\ UNCHANGED <<g_op, headers, g_issued, g_expired>>
    /\ UNCHANGED notGw

\* the broker stops accepting a token it has issued
GwExpire ==
    /\ \E t \in (1..g_issued) \ g_expired : g_expired' = g_expired \cup {t}
    /\ UNCHANGED <<g_pc, g_op, g_attempt, headers, g_cached, g_issued, g_sent, g_sleeps, g_ret>>
    /\ UNCHANGED notGw

\* the caller takes the returned value
GwReturn ==
    /\ g_pc = "done"
    /\ g_pc' = "idle"
    /\ g_sent' = <<>>
    /\ g_ret' = "none"
    /\ UNCHANGED <<g_op, g_attempt, headers, g_cached, g_issued, g_expired, g_sleeps>>
    /\ UNCHANGED notGw

GwFields ==
    /\ g_pc = "idle"
    /\ g_op = "get_balance"
    /\ g_attempt = 0
    /\ headers = 0
    /\ g_cached = 0
    /\ g_issued = 0
    /\ g_expired = {}
    /\ g_sent = <<>>
    /\ g_sleeps = 0
    /\ g_ret = "none"

GwNext ==
    \/ GwCall
    \/ GwAttempt
    \/ GwExpire
    \/ GwReturn

(***************************************************************************)
(* Watchdog of the scheduler child process and the heartbeat file          *)
(***************************************************************************)
WatchdogSleepSec == 2

BackoffCapSec == 30

NoHeartbeat == [writer |-> "none", pid |-> 0, is_running |-> FALSE, restart_count |-> 0]

\* mark_restart_failure: min(30, 2 ** max(0, count - 1))
Backoff(count) == IF 2 ^ (IF count >= 1 THEN count - 1 ELSE 0) < BackoffCapSec
                  THEN 2 ^ (IF count >= 1 THEN count - 1 ELSE 0)
                  ELSE BackoffCapSec

\* can_restart_now
CanRestartNow == wd_now >= next_restart_at

\* the branch of the watchdog pass that writes the state file: the child is
\* not alive and the backoff has passed
WatchdogWritesAlways(alive) == TRUE

WatchdogWrites(alive) == ~alive /\ CanRestartNow

\* SchedulerStateStore.heartbeat as called by the child (pid = os.getpid())
ChildBeat(running) == [writer |-> "child", pid |-> 1, is_running |-> running, restart_count |-> 0]

\* _scheduler_loop: any of the heartbeats of the loop
ChildHeartbeat ==
    /\ proc_alive
    /\ hb_file' = ChildBeat(TRUE)
    /\ child_wrote' = TRUE
    /\ UNCHANGED <<wd_now, proc_alive, restart_fail_count, next_restart_at, dash_view, wd_op>>
    /\ UNCHANGED notWd

\* the child ends: killed or crashed (nothing written), or ended by a signal
\* whose handler writes a last heartbeat with is_running = False
ChildExit ==
    /\ proc_alive
    /\ proc_alive' = FALSE
    /\ child_wrote' = FALSE
    /\ \E handler \in BOOLEAN :
         hb_file' = IF handler THEN ChildBeat(FALSE) ELSE hb_file
    /\ UNCHANGED <<wd_now, restart_fail_count, next_restart_at, dash_view, wd_op>>
    /\ UNCHANGED notWd

\* one pass of the watchdog loop for the mode, followed by time.sleep(2.0);
\* wd_op.k counts the deaths found since the child was last seen alive and
\* wd_op.found_at is the pass that found the latest of them
WatchdogPass ==
    /\ wd_now < MaxWdTime
    /\ wd_now' = wd_now + WatchdogSleepSec
    /\ LET new_death == wd_op.op \in {"start", "alive", "restart"}
           k == IF new_death THEN wd_op.k + 1 ELSE wd_op.k
           found_at == IF new_death THEN wd_now ELSE wd_op.found_at
       IN  IF proc_alive /\ ~WatchdogWrites(proc_alive)
           THEN \* reset_restart_backoff
                /\ restart_fail_count' = 0
                /\ next_restart_at' = 0
                /\ wd_op' = [op |-> "alive", at |-> wd_now, k |-> 0, found_at |-> 0]
                /\ UNCHANGED <<proc_alive, child_wrote, hb_file>>
           ELSE IF ~WatchdogWrites(proc_alive)
           THEN /\ wd_op' = [op |-> "wait", at |-> wd_now, k |-> k, found_at |-> found_at]
                /\ UNCHANGED <<proc_alive, child_wrote, hb_file, restart_fail_count,
                               next_restart_at>>
           ELSE \E written \in BOOLEAN, raises \in BOOLEAN :
                /\ hb_file' = IF written
                              THEN [writer |-> "watchdog", pid |-> 0, is_running |-> FALSE,
                                    restart_count |-> hb_file.restart_count + 1]
                              ELSE hb_file
                /\ IF raises
                      THEN \* mark_restart_failure
                           /\ restart_fail_count' = restart_fail_count + 1
                           /\ next_restart_at' = wd_now + Backoff(restart_fail_count + 1)
                           /\ wd_op' = [op |-> "failure", at |-> wd_now, k |-> k,
                                        found_at |-> found_at]
                           /\ UNCHANGED <<proc_alive, child_wrote>>
                      ELSE \* ms.start()
                           /\ proc_alive' = TRUE
                           /\ child_wrote' = (proc_alive /\ child_wrote)
                           /\ wd_op' = [op |-> "restart", at |-> wd_now, k |-> k,
                                        found_at |-> found_at]
                           /\ UNCHANGED <<restart_fail_count, next_restart_at>>
    /\ UNCHANGED dash_view
    /\ UNCHANGED notWd

\* app.py 385-393: the dashboard reads the state file
DashboardRead ==
    /\ dash_view' = hb_file
    /\ dash_view' # dash_view
    /\ UNCHANGED <<wd_now, proc_alive, child_wrote, restart_fail_count, next_restart_at,
                   hb_file, wd_op>>
    /\ UNCHANGED notWd

\* MultiProcessScheduler.start(): the child has just been started
WdFields ==
    /\ wd_now = 0
    /\ proc_alive = TRUE
    /\ child_wrote = FALSE
    /\ restart_fail_count = 0
    /\ next_restart_at = 0
    /\ hb_file = NoHeartbeat
    /\ dash_view = NoHeartbeat
    /\ wd_op = [op |-> "start", at |-> 0, k |-> 0, found_at |-> 0]

WdNext ==
    \/ ChildHeartbeat
    \/ ChildExit
    \/ WatchdogPass
    \/ DashboardRead

(***************************************************************************)
(* Price formatters of KisOrder                                            *)
(*                                                                         *)
(* A decimal number and a formatted string are both records of a sign, an  *)
(* integer part and the sequence of fractional digits: "59.82" is          *)
(* [neg |-> FALSE, int |-> 59, frac |-> <<8, 2>>], "100" has frac = <<>>.  *)
(***************************************************************************)
FracDigits == {0, 9}

IntParts == {0, 1, 12}

RECURSIVE DigitSeqs(_)
DigitSeqs(n) ==
    IF n = 0 THEN {<<>>}
    ELSE DigitSeqs(n - 1) \cup
         {Append(s, d) : s \in {t \in DigitSeqs(n - 1) : Len(t) = n - 1}, d \in FracDigits}

PriceNone == [neg |-> FALSE, int |-> -1, frac |-> <<>>]

NotFormatted == [neg |-> FALSE, int |-> -2, frac |-> <<>>]

DecZero == [neg |-> FALSE, int |-> 0, frac |-> <<>>]

IsZeroDec(d) == d.int = 0 /\ \A i \in 1..Len(d.frac) : d.frac[i] = 0

\* the values of Decimal(str(price)); a negative price is a nonzero one
Prices ==
    {PriceNone}
    \cup {[neg |-> FALSE, int |-> i, frac |-> f] : i \in IntParts, f \in DigitSeqs(MaxFracLen)}
    \cup {[neg |-> TRUE, int |-> i, frac |-> f] : i \in IntParts \ {0}, f \in DigitSeqs(1)}

\* `if d < 0: d = Decimal("0")`
ClampNegative(d) == IF d.neg THEN DecZero ELSE d

\* d.quantize(Decimal("0.0..01"), rounding=ROUND_DOWN) with k fractional digits:
\* the first k digits are kept, missing ones are zeros
Quantize(d, k) ==
    [neg |-> d.neg, int |-> d.int,
     frac |-> [i \in 1..k |-> IF i <= Len(d.frac) THEN d.frac[i] ELSE 0]]

\* s.rstrip("0").rstrip(".") on the fixed-point string
RECURSIVE RStripZeros(_)
RStripZeros(f) ==
    IF f = <<>> THEN <<>>
    ELSE IF f[Len(f)] = 0 THEN RStripZeros(SubSeq(f, 1, Len(f) - 1))
    ELSE f

UnitPriceDigits == 8

\* order.py 43-70
FormatOvrsOrdUnpr(price) ==
    IF price = PriceNone THEN Quantize(DecZero, UnitPriceDigits)
    ELSE LET d == Quantize(ClampNegative(price), UnitPriceDigits)
         IN  [neg |-> FALSE, int |-> d.int, frac |-> RStripZeros(d.frac)]

\* order.py 86-89: the quantum of the order price
OrderPriceDigitsTwo(d) == 2

OrderPriceDigits(d) == IF d.int >= 1 THEN 2 ELSE 4

\* order.py 72-93
FormatOrderPrice(price) ==
    IF price = PriceNone THEN DecZero
    ELSE LET d == ClampNegative(price)
         IN  IF IsZeroDec(d) THEN DecZero
             ELSE Quantize(d, OrderPriceDigits(d))

CallFormatOvrsOrdUnpr ==
    /\ fm_unpr = NotFormatted
    /\ fm_unpr' = FormatOvrsOrdUnpr(fm_price)
    /\ UNCHANGED <<fm_price, fm_order>>
    /\ UNCHANGED notFm

CallFormatOrderPrice ==
    /\ fm_order = NotFormatted
    /\ fm_order' = FormatOrderPrice(fm_price)
    /\ UNCHANGED <<fm_price, fm_unpr>>
    /\ UNCHANGED notFm

FmFields ==
    /\ fm_price = PriceNone
    /\ fm_unpr = NotFormatted
    /\ fm_order = NotFormatted

FmInputs ==
    /\ fm_price \in Prices
    /\ fm_unpr = NotFormatted
    /\ fm_order = NotFormatted

FmNext ==
    \/ CallFormatOvrsOrdUnpr
    \/ CallFormatOrderPrice

(***************************************************************************)
(* Sell cooldown shared by the sell scan of a cycle and the intraday       *)
(* stop-loss watch (engine.py 1184-1335, 2027-2128).  Both run in the      *)
(* scheduler child, one after the other (multi_process_scheduler.py        *)
(* 153-165), on the same TradingEngine instance.  Time is in minutes.      *)
(***************************************************************************)
\* engine.py 1196, 2072: timedelta(minutes=5)
CooldownMinutes == 5

NoSell == [symbol |-> "", at |-> 0, by |-> "none", prev |-> <<>>]

\* the rows a loop visits, in the order of the balance response
LoopRows == {SelectSeq(SymbolOrder, LAMBDA s : s \in S) : S \in SUBSET Symbols}

\* engine.py 1195-1196, 2098-2099: last and (now - last) < timedelta(minutes=5)
InCooldown(symbol, now_dt) ==
    /\ symbol \in DOMAIN stop_loss_cooldown
    /\ now_dt - stop_loss_cooldown[symbol] < CooldownMinutes

\* dict assignment d[k] = v
DictSet(d, k, v) == [x \in DOMAIN d \cup {k} |-> IF x = k THEN v ELSE d[x]]

\* engine.py 2071, 2120: the watch stores the `now` it read before the loop
WatchStamp(now_dt) == now_dt

\* what a submitted sell order leaves: the order, and the time of the answer when it succeeded
SubmitSell(symbol, by, ok) ==
    /\ last_sell' = [symbol |-> symbol, at |-> cd_clock, by |-> by,
                     prev |-> IF symbol \in DOMAIN sold_at THEN <<sold_at[symbol]>> ELSE <<>>]
    /\ sold_at' = IF ok THEN DictSet(sold_at, symbol, cd_clock) ELSE sold_at

\* time passes: the 60 s sleep of the child loop, and the remote calls of a loop
\* (orders with their retries, quotes, cancellations)
CdTick ==
    /\ cd_clock < MaxCdTime
    /\ cd_clock' = cd_clock + 1
    /\ UNCHANGED <<cd_pc, cd_now, cd_todo, cd_sold, stop_loss_cooldown, sold_at, last_sell>>
    /\ UNCHANGED notCd

\* engine.py 2066-2073: balance fetched, `now` read once, the loop starts
WatchBegin ==
    /\ cd_pc = "idle"
    /\ cd_pc' = "watch"
    /\ cd_now' = cd_clock
    /\ cd_todo' \in LoopRows
    /\ UNCHANGED <<cd_clock, cd_sold, stop_loss_cooldown, sold_at, last_sell>>
    /\ UNCHANGED notCd

\* engine.py 2073-2120: one row of the watch loop
WatchRow ==
    /\ cd_pc = "watch"
    /\ cd_todo # <<>>
    /\ LET symbol == Head(cd_todo)
       IN  \/ \* quantity 0 or threshold not met (2079-2095), or cooldown (2098-2100)
              /\ UNCHANGED <<stop_loss_cooldown, sold_at, last_sell>>
           \/ /\ ~InCooldown(symbol, cd_now)
              /\ \E ok \in BOOLEAN :
                   /\ SubmitSell(symbol, "watch", ok)
                   /\ stop_loss_cooldown' =
                        IF ok THEN DictSet(stop_loss_cooldown, symbol, WatchStamp(cd_now))
                              ELSE stop_loss_cooldown
    /\ cd_todo' = Tail(cd_todo)
    /\ UNCHANGED <<cd_clock, cd_pc, cd_now, cd_sold>>
    /\ UNCHANGED notCd

\* the loop of stop_loss_watch has run out of rows
WatchEnd ==
    /\ cd_pc = "watch"
    /\ cd_todo = <<>>
    /\ cd_pc' = "idle"
    /\ UNCHANGED <<cd_clock, cd_now, cd_todo, cd_sold, stop_loss_cooldown, sold_at, last_sell>>
    /\ UNCHANGED notCd

\* engine.py 735-773, 1184: the sell scan starts over the balance snapshot
ScanBegin ==
    /\ cd_pc = "idle"
    /\ cd_pc' = "scan"
    /\ cd_sold' = {}
    /\ cd_todo' \in LoopRows
    /\ UNCHANGED <<cd_clock, cd_now, stop_loss_cooldown, sold_at, last_sell>>
    /\ UNCHANGED notCd

\* engine.py 1184-1335: one row of the sell scan
ScanRow ==
    /\ cd_pc = "scan"
    /\ cd_todo # <<>>
    /\ LET symbol == Head(cd_todo)
       IN  \/ \* guard skip (1192-1199), quantity 0 (1204-1206) or no sell condition met
              /\ UNCHANGED <<cd_sold, stop_loss_cooldown, sold_at, last_sell>>
           \/ /\ symbol \notin cd_sold
              /\ ~InCooldown(symbol, cd_clock)
              /\ \E ok \in BOOLEAN :
                   /\ SubmitSell(symbol, "scan", ok)
                   /\ cd_sold' = IF ok THEN cd_sold \cup {symbol} ELSE cd_sold
                   /\ stop_loss_cooldown' =
                        IF ok THEN DictSet(stop_loss_cooldown, symbol, cd_clock)
                              ELSE stop_loss_cooldown
    /\ cd_todo' = Tail(cd_todo)
    /\ UNCHANGED <<cd_clock, cd_pc, cd_now>>
    /\ UNCHANGED notCd

\* the sell loop has run out of rows
ScanEnd ==
    /\ cd_pc = "scan"
    /\ cd_todo = <<>>
    /\ cd_pc' = "idle"
    /\ UNCHANGED <<cd_clock, cd_now, cd_todo, cd_sold, stop_loss_cooldown, sold_at, last_sell>>
    /\ UNCHANGED notCd

\* engine.py 25: self._stop_loss_cooldown = {} in a new scheduler child
CdFields ==
    /\ cd_clock = 0
    /\ cd_pc = "idle"
    /\ cd_now = 0
    /\ cd_todo = <<>>
    /\ cd_sold = {}
    /\ stop_loss_cooldown = <<>>
    /\ sold_at = <<>>
    /\ last_sell = NoSell

CdNext ==
    \/ CdTick
    \/ WatchBegin
    \/ WatchRow
    \/ WatchEnd
    \/ ScanBegin
    \/ ScanRow
    \/ ScanEnd

(***************************************************************************)
(* Cancellation of resting orders before a buy or sell order               *)
(* (engine.py 1032-1099 and its call sites 1212, 1248, 1306, 1878, 1905).  *)
(* One exchange; a resting order is a row with its symbol (pdno) and its   *)
(* side code (sll_buy_dvsn_cd: "01" sell, "02" buy).                        *)
(***************************************************************************)
UnfilledRows == [pdno : Symbols, sll_buy_dvsn_cd : {"01", "02"}]

NoCancelCall == [symbol |-> "", side |-> "none", tried |-> {}]

\* engine.py 1212, 1248, 1306: a sell passes no side_filter; 1878, 1905: a buy passes "buy"
SideFilter(side) == IF side = "buy" THEN "buy" ELSE "none"

\* engine.py 1069-1075: does the row pass the side filter
PassesSideFilter(row, side_filter) ==
    /\ side_filter = "buy" => row.sll_buy_dvsn_cd \in {"02", "buy"}
    /\ side_filter = "sell" => row.sll_buy_dvsn_cd \in {"01", "sell"}

\* engine.py 1062-1085: the rows of the list the helper asks the broker to cancel
RowsToCancel(rows, sym, side_filter) ==
    {r \in rows : r.pdno = sym /\ PassesSideFilter(r, side_filter)}

\* engine.py 541-636: a cycle starts in the configured mode with an empty cache (1032)
CxCycleBegin ==
    /\ cx_mode' \in {"mock", "real"}
    /\ unfilled_cache' = <<>>
    /\ cx_call' = NoCancelCall
    /\ UNCHANGED cx_resting
    /\ UNCHANGED notCx

\* the broker's book changes: an order comes to rest (placed by the user or left by an
\* earlier cycle) or a resting order is filled or expires
CxBookChange ==
    /\ \E r \in UnfilledRows :
         cx_resting' = IF r \in cx_resting THEN cx_resting \ {r} ELSE cx_resting \cup {r}
    /\ UNCHANGED <<cx_mode, unfilled_cache, cx_call>>
    /\ UNCHANGED notCx

\* engine.py 1045-1099: _cancel_unfilled_for_symbol as called before an order of `side`
\* for `sym`; the cancel requests succeed for the rows still resting, or fail
CancelUnfilledForSymbol ==
    /\ cx_mode # "none"
    /\ \E sym \in Symbols, side \in {"buy", "sell"} :
      IF cx_mode # "real"
         THEN /\ cx_call' = [symbol |-> sym, side |-> side, tried |-> {}]
              /\ UNCHANGED <<cx_mode, cx_resting, unfilled_cache>>
              /\ UNCHANGED notCx
         ELSE \E fetched \in BOOLEAN :
                LET rows == IF unfilled_cache # <<>> THEN unfilled_cache[1]
                            ELSE IF fetched THEN cx_resting ELSE {}
                    tried == RowsToCancel(rows, sym, SideFilter(side))
                IN  /\ unfilled_cache' =
                         IF unfilled_cache = <<>> /\ fetched THEN <<cx_resting>>
                                                             ELSE unfilled_cache
                    /\ cx_call' = [symbol |-> sym, side |-> side, tried |-> tried]
                    /\ \E done \in SUBSET (tried \cap cx_resting) :
                         cx_resting' = cx_resting \ done
                    /\ UNCHANGED cx_mode
                    /\ UNCHANGED notCx

\* the scheduler child before its first cycle
CxFields ==
    /\ cx_mode = "none"
    /\ cx_resting = {}
    /\ unfilled_cache = <<>>
    /\ cx_call = NoCancelCall

CxNext ==
    \/ CxCycleBegin
    \/ CxBookChange
    \/ CancelUnfilledForSymbol

(***************************************************************************)
(* The scheduler children of both modes, the watchdog thread and the       *)
(* start/stop requests of the web process (multi_process_scheduler.py      *)
(* 24-96, 214-296; web/app.py 33-45, 49-90).  _ModeScheduler.start and     *)
(* stop run under the lock of their mode and are one step each;            *)
(* MultiProcessScheduler.stop is several steps under its own lock, which   *)
(* the watchdog does not take.                                             *)
(***************************************************************************)
Modes == {"mock", "real"}

\* threads the web process can run as watchdog
WatchdogThreads == {"w1", "w2"}

NoStart == [by |-> "none", mode |-> "", found |-> "none"]

\* multi_process_scheduler.py 254: for ms in (self.mock, self.real), then time.sleep(2.0)
AfterVisit(pc) == IF pc = "mock" THEN "real" ELSE "sleep"

AfterFailedVisitEndsThread(pc) == "off"

\* multi_process_scheduler.py 255, 282-283: the except clause lies inside the for loop, so
\* the pass goes on with the next mode after a failed start
AfterFailedVisit(pc) == AfterVisit(pc)

AliveCheckSkipped(p) == FALSE

\* multi_process_scheduler.py 35-36: start() returns when the child is alive
AliveCheck(p) == p = "alive"

\* multi_process_scheduler.py 82-86: the counter saturates where the backoff stops growing
FailCountAfter(count) == Min(count + 1, MaxRestartFails)

\* multi_process_scheduler.py 33-52: _ModeScheduler.start(); ok: Process.start() returned
ModeStart(m, by, ok) ==
    /\ ms_last' = [by |-> by, mode |-> m, found |-> ms_proc[m]]
    /\ IF AliveCheck(ms_proc[m])
          THEN UNCHANGED <<ms_proc, ms_orphans>>
          ELSE /\ ms_proc' = [ms_proc EXCEPT ![m] = IF ok THEN "alive" ELSE "dead"]
               /\ ms_orphans' = [ms_orphans EXCEPT
                                    ![m] = IF ms_proc[m] = "alive" THEN @ + 1 ELSE @]

\* multi_process_scheduler.py 52: Process.start() returns or raises
StartOutcomes(m) == BOOLEAN

\* multi_process_scheduler.py 54-66: _ModeScheduler.stop()
ModeStopped(m) ==
    /\ ms_proc' = [ms_proc EXCEPT ![m] = "none"]
    /\ ms_fail_count' = [ms_fail_count EXCEPT ![m] = 0]
    /\ ms_restart_in' = [ms_restart_in EXCEPT ![m] = 0]

\* multi_process_scheduler.py 227-233 (web/app.py 44, 66, 81): start() of both modes and
\* of the watchdog; an exception of Process.start() leaves start() at once
MpsStart ==
    /\ mps_pc = "idle"
    /\ ~mps_started
    /\ no_start_since' = FALSE
    /\ \E okm \in StartOutcomes("mock"), okr \in StartOutcomes("real"), t \in WatchdogThreads :
         LET mock_raised == ~AliveCheck(ms_proc["mock"]) /\ ~okm
             real_raised == ~AliveCheck(ms_proc["real"]) /\ ~okr
             StartedProc(p, ok) == IF AliveCheck(p) THEN p ELSE IF ok THEN "alive" ELSE "dead"
         IN  /\ wt_pc[t] = "off"
             /\ ms_proc' =
                  [m \in Modes |->
                     IF m = "mock" THEN StartedProc(ms_proc[m], okm)
                     ELSE IF mock_raised THEN ms_proc[m]
                     ELSE StartedProc(ms_proc[m], okr)]
             /\ ms_last' = [by |-> "start", mode |-> IF mock_raised THEN "mock" ELSE "real",
                            found |-> ms_proc[IF mock_raised THEN "mock" ELSE "real"]]
             /\ IF mock_raised \/ real_raised
                   THEN UNCHANGED <<mps_started, watchdog_stop, watchdog_thread, wt_pc>>
                   ELSE /\ mps_started' = TRUE
                        /\ watchdog_stop' = FALSE
                        /\ watchdog_thread' = t
                        /\ wt_pc' = [wt_pc EXCEPT ![t] = "head"]
    /\ UNCHANGED <<ms_orphans, ms_fail_count, ms_restart_in, mps_pc>>
    /\ UNCHANGED notMs

\* multi_process_scheduler.py 236-238, 289-291: stop() takes the lock and sets the event
MpsStopBegin ==
    /\ mps_pc = "idle"
    /\ mps_pc' = "stop_join"
    /\ watchdog_stop' = TRUE
    /\ no_start_since' = TRUE
    /\ UNCHANGED <<ms_proc, ms_orphans, ms_fail_count, ms_restart_in,
                   mps_started, watchdog_thread, wt_pc, ms_last>>
    /\ UNCHANGED notMs

\* multi_process_scheduler.py 292-296: join(timeout=1.0) returns, because the thread has
\* ended or because the second has passed, and the thread is forgotten
MpsStopJoin ==
    /\ mps_pc = "stop_join"
    /\ mps_pc' = "stop_mock"
    /\ watchdog_thread' = "none"
    /\ UNCHANGED <<ms_proc, ms_orphans, ms_fail_count, ms_restart_in,
                   mps_started, watchdog_stop, wt_pc, no_start_since, ms_last>>
    /\ UNCHANGED notMs

\* multi_process_scheduler.py 239: self.mock.stop()
MpsStopMock ==
    /\ mps_pc = "stop_mock"
    /\ mps_pc' = "stop_real"
    /\ ModeStopped("mock")
    /\ UNCHANGED <<ms_orphans, mps_started, watchdog_stop, watchdog_thread,
                   wt_pc, no_start_since, ms_last>>
    /\ UNCHANGED notMs

\* multi_process_scheduler.py 240-241: self.real.stop(), _started = False, stop() returns
MpsStopReal ==
    /\ mps_pc = "stop_real"
    /\ mps_pc' = "idle"
    /\ ModeStopped("real")
    /\ mps_started' = FALSE
    /\ UNCHANGED <<ms_orphans, watchdog_stop, watchdog_thread, wt_pc, no_start_since, ms_last>>
    /\ UNCHANGED notMs

\* web/app.py 68, 70, 84, 87: start request for one mode
WebModeStart ==
    /\ \E m \in Modes : \E ok \in StartOutcomes(m) : ModeStart(m, "web", ok)
    /\ no_start_since' = FALSE
    /\ UNCHANGED <<ms_fail_count, ms_restart_in, mps_started, mps_pc,
                   watchdog_stop, watchdog_thread, wt_pc>>
    /\ UNCHANGED notMs

\* web/app.py 75, 77, 83, 86: stop request for one mode
WebModeStop ==
    /\ \E m \in Modes : ms_proc[m] # "none" /\ ModeStopped(m)
    /\ UNCHANGED <<ms_orphans, mps_started, mps_pc, watchdog_stop,
                   watchdog_thread, wt_pc, no_start_since, ms_last>>
    /\ UNCHANGED notMs

\* the child of a mode exits: crash, signal, SystemExit
ModeChildDies ==
    /\ \E m \in Modes :
         /\ ms_proc[m] = "alive"
         /\ ms_proc' = [ms_proc EXCEPT ![m] = "dead"]
    /\ UNCHANGED <<ms_orphans, ms_fail_count, ms_restart_in, mps_started,
                   mps_pc, watchdog_stop, watchdog_thread, wt_pc, no_start_since, ms_last>>
    /\ UNCHANGED notMs

\* multi_process_scheduler.py 253: while not self._watchdog_stop.is_set()
WatchdogHead ==
    /\ \E t \in WatchdogThreads :
         /\ wt_pc[t] = "head"
         /\ wt_pc' = [wt_pc EXCEPT ![t] = IF watchdog_stop THEN "off" ELSE "mock"]
    /\ UNCHANGED <<ms_proc, ms_orphans, ms_fail_count, ms_restart_in,
                   mps_started, mps_pc, watchdog_stop, watchdog_thread, no_start_since, ms_last>>
    /\ UNCHANGED notMs

\* multi_process_scheduler.py 254-283: the body of the for loop for one mode
WatchdogVisit(t, m) ==
    /\ wt_pc[t] = m
    /\ IF ms_proc[m] = "alive"
          THEN \* 257-259: reset_restart_backoff
               /\ ms_fail_count' = [ms_fail_count EXCEPT ![m] = 0]
               /\ ms_restart_in' = [ms_restart_in EXCEPT ![m] = 0]
               /\ wt_pc' = [wt_pc EXCEPT ![t] = AfterVisit(m)]
               /\ UNCHANGED <<ms_proc, ms_orphans, ms_last>>
       ELSE IF ms_restart_in[m] > 0
          THEN \* 262-263: can_restart_now() is false
               /\ wt_pc' = [wt_pc EXCEPT ![t] = AfterVisit(m)]
               /\ UNCHANGED <<ms_proc, ms_orphans, ms_fail_count, ms_restart_in, ms_last>>
       ELSE \E ok \in StartOutcomes(m) :
               /\ ModeStart(m, "watchdog", ok)
               /\ wt_pc' = [wt_pc EXCEPT ![t] = IF ok THEN AfterVisit(m)
                                                      ELSE AfterFailedVisit(m)]
               /\ IF ok
                     THEN UNCHANGED <<ms_fail_count, ms_restart_in>>
                     ELSE \* 282-283: mark_restart_failure
                          /\ ms_fail_count' = [ms_fail_count EXCEPT ![m] = FailCountAfter(@)]
                          /\ ms_restart_in' = [ms_restart_in EXCEPT
                                                  ![m] = Backoff(FailCountAfter(ms_fail_count[m]))]
    /\ UNCHANGED <<mps_started, mps_pc, watchdog_stop, watchdog_thread,
                   no_start_since>>
    /\ UNCHANGED notMs

WatchdogStep == \E t \in WatchdogThreads, m \in Modes : WatchdogVisit(t, m)

\* multi_process_scheduler.py 284: time.sleep(2.0)
WatchdogSleep ==
    /\ \E t \in WatchdogThreads :
         /\ wt_pc[t] = "sleep"
         /\ wt_pc' = [wt_pc EXCEPT ![t] = "head"]
    /\ ms_restart_in' = [m \in Modes |-> Max(ms_restart_in[m] - WatchdogSleepSec, 0)]
    /\ UNCHANGED <<ms_proc, ms_orphans, ms_fail_count, mps_started, mps_pc,
                   watchdog_stop, watchdog_thread, no_start_since, ms_last>>
    /\ UNCHANGED notMs

\* multi_process_scheduler.py 219-225: a new MultiProcessScheduler
MsFields ==
    /\ ms_proc = [m \in Modes |-> "none"]
    /\ ms_orphans = [m \in Modes |-> 0]
    /\ ms_fail_count = [m \in Modes |-> 0]
    /\ ms_restart_in = [m \in Modes |-> 0]
    /\ mps_started = FALSE
    /\ mps_pc = "idle"
    /\ watchdog_stop = FALSE
    /\ watchdog_thread = "none"
    /\ wt_pc = [t \in WatchdogThreads |-> "off"]
    /\ no_start_since = FALSE
    /\ ms_last = NoStart

MsNext ==
    \/ MpsStart
    \/ MpsStopBegin
    \/ MpsStopJoin
    \/ MpsStopMock
    \/ MpsStopReal
    \/ WebModeStart
    \/ WebModeStop
    \/ ModeChildDies
    \/ WatchdogHead
    \/ WatchdogStep
    \/ WatchdogSleep

(***************************************************************************)
(* Execution ledger: ExecutionHistoryStore (execution_history_store.py).   *)
(* A run id is the number of the run (the engine draws a fresh uuid4 per   *)
(* run, engine.py 544); max_entries is scaled down to MaxEntries.          *)
(***************************************************************************)
\* the records the engine hands over: status and buy attempts (engine.py 546-561)
LedgerItems(run_id) ==
    [run_id : {run_id}, status : {"success", "error"}, buy_attempts : {<<>>, <<"AAA">>}]

NotFound == [run_id |-> 0, status |-> "none", buy_attempts |-> <<>>]

\* execution_history_store.py 92-113: _build_slim keeps the head fields and the counts
BuildSlim(item) ==
    [run_id |-> item.run_id, status |-> item.status,
     buy_attempts_count |-> Len(item.buy_attempts)]

TruncateKeepsOldest(rows) ==
    IF Len(rows) > MaxEntries THEN SubSeq(rows, Len(rows) - MaxEntries + 1, Len(rows)) ELSE rows

\* execution_history_store.py 125-126, 134-135: rows[: max_entries]
Truncate(rows) ==
    IF Len(rows) > MaxEntries THEN SubSeq(rows, 1, MaxEntries) ELSE rows

\* execution_history_store.py 171-193: get(run_id): the detail file, else the full list
LedgerLookup(rid) ==
    IF rid \in DOMAIN lg_details THEN lg_details[rid]
    ELSE IF \E i \in 1..Len(lg_rows) : lg_rows[i].run_id = rid
         THEN lg_rows[CHOOSE i \in 1..Len(lg_rows) :
                        /\ lg_rows[i].run_id = rid
                        /\ \A j \in 1..(i - 1) : lg_rows[j].run_id # rid]
    ELSE NotFound

\* execution_history_store.py 115-136: append(item)
LedgerAppend ==
    /\ Len(lg_appended) < MaxAppends
    /\ \E item \in LedgerItems(Len(lg_appended) + 1) :
         /\ lg_details' = [r \in DOMAIN lg_details \cup {item.run_id} |->
                              IF r = item.run_id THEN item ELSE lg_details[r]]
         /\ lg_index' = Truncate(<<BuildSlim(item)>> \o lg_index)
         /\ lg_rows' = Truncate(<<item>> \o lg_rows)
         /\ lg_appended' = Append(lg_appended, item)
    /\ UNCHANGED lg_got
    /\ UNCHANGED notLg

\* execution_history_store.py 171-193: get(run_id) of a run that was appended; a record
\* found only in the full list gets its detail file written
LedgerGet ==
    /\ \E i \in 1..Len(lg_appended) :
         LET rid == lg_appended[i].run_id
             found == LedgerLookup(rid)
         IN  /\ lg_got' = <<found>>
             /\ lg_got' # lg_got
             /\ lg_details' = IF rid \notin DOMAIN lg_details /\ found # NotFound
                                 THEN [r \in DOMAIN lg_details \cup {rid} |->
                                          IF r = rid THEN found ELSE lg_details[r]]
                                 ELSE lg_details
    /\ UNCHANGED <<lg_rows, lg_index, lg_appended>>
    /\ UNCHANGED notLg

\* execution_history_store.py 138-169: list(); the index is rebuilt from the full list
\* when it is empty; every run of the model lies inside the cutoff
LedgerList ==
    /\ LET rebuilt == [i \in 1..Len(lg_rows) |-> BuildSlim(lg_rows[i])]
           rows == IF lg_index # <<>> THEN lg_index ELSE rebuilt
       IN  /\ lg_index' = IF lg_index = <<>> /\ lg_rows # <<>> THEN Truncate(rebuilt)
                                                                ELSE lg_index
           /\ lg_got' = rows
           /\ lg_got' # lg_got
    /\ UNCHANGED <<lg_rows, lg_details, lg_appended>>
    /\ UNCHANGED notLg

\* execution_history_store.py 20-28: no ledger files yet
LgFields ==
    /\ lg_rows = <<>>
    /\ lg_index = <<>>
    /\ lg_details = <<>>
    /\ lg_appended = <<>>
    /\ lg_got = <<>>

LgNext ==
    \/ LedgerAppend
    \/ LedgerGet
    \/ LedgerList

(***************************************************************************)
(* Specifications                                                          *)
(***************************************************************************)
RunInit == RunFields /\ LadIdle /\ AuthFields /\ WebFields /\ CycFields /\ PosFields /\ GwFields /\ WdFields /\ FmFields /\ CdFields /\ CxFields /\ MsFields /\ LgFields

SpecRun == RunInit /\ [][RunNext]_vars

LadInit == LadStart /\ RunFields /\ AuthFields /\ WebFields /\ CycFields /\ PosFields /\ GwFields /\ WdFields /\ FmFields /\ CdFields /\ CxFields /\ MsFields /\ LgFields

SpecLadder == LadInit /\ [][LadNext]_vars

AuthInit == AuthFields /\ RunFields /\ LadIdle /\ WebFields /\ CycFields /\ PosFields /\ GwFields /\ WdFields /\ FmFields /\ CdFields /\ CxFields /\ MsFields /\ LgFields

SpecAuth == AuthInit /\ [][AuthNext]_vars

WebInit == WebFields /\ RunFields /\ LadIdle /\ AuthFields /\ CycFields /\ PosFields /\ GwFields /\ WdFields /\ FmFields /\ CdFields /\ CxFields /\ MsFields /\ LgFields

SpecGuard == WebInit /\ [][WebNext]_vars

CycInit == CycFields /\ RunFields /\ LadIdle /\ AuthFields /\ WebFields /\ PosFields /\ GwFields /\ WdFields /\ FmFields /\ CdFields /\ CxFields /\ MsFields /\ LgFields

SpecCycle == CycInit /\ [][CycNext]_vars

\* engine.py 48-81, 84-130, 1116: the waits of a cycle have deadlines and the remote calls
\* carry timeouts, so a statement of _run_core that has started returns or raises
CycStep ==
    \/ CycToken
    \/ CycStrategy
    \/ CycMarket
    \/ CycBalance
    \/ CycAnalysis
    \/ CycSell
    \/ CycBuyGate
    \/ CycBuy
    \/ CycBuyEnd
    \/ CycSummary
    \/ CycFinally

SpecCycleLive == CycInit /\ [][CycNext]_vars /\ WF_vars(CycStep)

PosInit == PosFields /\ RunFields /\ LadIdle /\ AuthFields /\ WebFields /\ CycFields /\ GwFields /\ WdFields /\ FmFields /\ CdFields /\ CxFields /\ MsFields /\ LgFields

SpecPositions == PosInit /\ [][PosNext]_vars

GwInit == GwFields /\ RunFields /\ LadIdle /\ AuthFields /\ WebFields /\ CycFields /\ PosFields /\ WdFields /\ FmFields /\ CdFields /\ CxFields /\ MsFields /\ LgFields

SpecGateway == GwInit /\ [][GwNext]_vars

WdInit == WdFields /\ RunFields /\ LadIdle /\ AuthFields /\ WebFields /\ CycFields /\ PosFields /\ GwFields /\ FmFields /\ CdFields /\ CxFields /\ MsFields /\ LgFields

SpecWatchdog == WdInit /\ [][WdNext]_vars

FmInit == FmInputs /\ RunFields /\ LadIdle /\ AuthFields /\ WebFields /\ CycFields /\ PosFields /\ GwFields /\ WdFields /\ CdFields /\ CxFields /\ MsFields /\ LgFields

SpecFormat == FmInit /\ [][FmNext]_vars

CdInit == CdFields /\ RunFields /\ LadIdle /\ AuthFields /\ WebFields /\ CycFields /\ PosFields /\ GwFields /\ WdFields /\ FmFields /\ CxFields /\ MsFields /\ LgFields

SpecCooldown == CdInit /\ [][CdNext]_vars

CxInit == CxFields /\ CdFields /\ RunFields /\ LadIdle /\ AuthFields /\ WebFields /\ CycFields /\ PosFields /\ GwFields /\ WdFields /\ FmFields /\ MsFields /\ LgFields

SpecCancel == CxInit /\ [][CxNext]_vars

MsInit == MsFields /\ CxFields /\ CdFields /\ RunFields /\ LadIdle /\ AuthFields /\ WebFields /\ CycFields /\ PosFields /\ GwFields /\ WdFields /\ FmFields /\ LgFields

SpecScheduler == MsInit /\ [][MsNext]_vars

LgInit == LgFields /\ MsFields /\ CxFields /\ CdFields /\ RunFields /\ LadIdle /\ AuthFields /\ WebFields /\ CycFields /\ PosFields /\ GwFields /\ WdFields /\ FmFields

SpecLedger == LgInit /\ [][LgNext]_vars

\* the watchdog restarts the child of mode m
WatchdogRestarts(m) ==
    \E t \in WatchdogThreads :
        WatchdogVisit(t, m) /\ ms_proc[m] # "alive" /\ ms_proc'[m] = "alive"

\* the scheduler while MultiProcessScheduler.stop() is not called
MsStartedNext ==
    \/ MpsStart
    \/ WebModeStart
    \/ WebModeStop
    \/ ModeChildDies
    \/ WatchdogHead
    \/ WatchdogStep
    \/ WatchdogSleep

\* the watchdog thread keeps running
SpecSchedulerLive ==
    /\ MsInit
    /\ [][MsStartedNext]_vars
    /\ WF_vars(WatchdogHead)
    /\ WF_vars(WatchdogStep)
    /\ WF_vars(WatchdogSleep)

C12_MarkStep ==
    /\ run_state_file' # run_state_file => (rpc = "analysis" /\ rpc' = "scan")
    /\ (rpc \in {"token", "market", "balance"} /\ rpc' = "finalize")
          => /\ run_state_file' = run_state_file
             /\ last_scheduled_run_day' = last_scheduled_run_day

C12_MarkOnlyAfterPreconditions == [][C12_MarkStep]_vars

\* a cycle of the day ended early and a later cycle of the same day ran
C12_Witness ==
    \E d \in aborted : executed[d] = 1 /\ run_state_file = d

(***************************************************************************)
(* Claims on the buy scan (SpecLadder)                                     *)
(***************************************************************************)
OrderPcs == {"order_token", "order_post", "order_return"}

NoFurtherOrder == buy_attempts' = buy_attempts /\ lpc' \notin OrderPcs

AttemptsAt(method, lvl) ==
    {i \in DOMAIN buy_attempts :
        buy_attempts[i].method = method /\ buy_attempts[i].level = lvl}

AttemptsOf(method) == {i \in DOMAIN buy_attempts : buy_attempts[i].method = method}

TraceSteps(step) == {i \in DOMAIN trace : trace[i].step = step}

(***************************************************************************)
(* C2: once the cancellation of a residual has failed, no further buy      *)
(* order is submitted for the candidate: the list of order submissions     *)
(* stays as it is and no order call (ladder level or fallback) is entered. *)
(***************************************************************************)
C2_NoOrderAfterCancelFailed ==
    [][ladder_ret.reason = "cancel_failed" => NoFurtherOrder]_vars

C2_Witness ==
    /\ lpc = "done"
    /\ ladder_ret.reason = "cancel_failed"
    /\ TraceSteps("buy.ladder.cancel_failed") # {}
    /\ Len(buy_attempts) >= 1

(***************************************************************************)
(* C3: every ladder order has a price of at most                           *)
(* current_price * (1 + limit_buy_max_premium_pct/100), and once the guard *)
(* has triggered at a level no order is submitted at that or a later level.*)
(***************************************************************************)
C3_PricesUnderCeiling ==
    \A i \in AttemptsOf("ask_ladder") :
        buy_attempts[i].price * 100 <= current_price * (100 + LimitBuyMaxPremiumPct)

C3_GuardCeiling ==
    /\ []C3_PricesUnderCeiling
    /\ [][ladder_ret.reason = "guard_triggered" => NoFurtherOrder]_vars

\* the guard stopped the ladder at level 2, after an order at level 1
C3_Witness ==
    /\ lpc = "done"
    /\ ladder_ret.reason = "guard_triggered"
    /\ AttemptsAt("ask_ladder", 1) # {}
    /\ AttemptsAt("ask_ladder", 2) = {}

(***************************************************************************)
(* C4: one call of the gateway order operation has at most one order       *)
(* accepted by the broker.                                                 *)
(***************************************************************************)
C4_AtMostOneAccepted == accepted <= 1

(***************************************************************************)
(* C5 as stated: after a partial fill at a non-final level and a           *)
(* successful cancellation, the finished ladder holds exactly one order at *)
(* the next level, for the residual quantity.                              *)
(***************************************************************************)
C5_ExactlyOneFurtherOrder ==
    lpc = "done" =>
        \A e \in TraceSteps("buy.ladder.level.next") :
            /\ Cardinality(AttemptsAt("ask_ladder", trace[e].level)) = 1
            /\ \A i \in AttemptsAt("ask_ladder", trace[e].level) :
                    buy_attempts[i].qty = trace[e].qty

(***************************************************************************)
(* C5 amended: after a partial fill at a non-final level and a successful  *)
(* cancellation, at most one order is submitted at the next level, at that *)
(* level's ask, for the residual capped by the buyable quantity queried    *)
(* again at that level; no order is submitted at the next level when its   *)
(* ask exceeds the guard ceiling or the capped quantity is 0.              *)
(***************************************************************************)
C5_NextLevelInv ==
    \A e \in TraceSteps("buy.ladder.level.next") :
        /\ Cardinality(AttemptsAt("ask_ladder", trace[e].level)) <= 1
        /\ \A i \in AttemptsAt("ask_ladder", trace[e].level) :
              /\ buy_attempts[i].qty <= trace[e].qty
              /\ buy_attempts[i].price = asks[trace[e].level]
        /\ (lpc = "done" /\ AttemptsAt("ask_ladder", trace[e].level) = {}
              /\ trace[e].level = level_idx + 1)
              => ladder_ret.reason \in {"guard_triggered", "qty_insufficient"}

C5_NextLevelStep ==
    (lpc = "level" /\ level_idx >= 1 /\ level_idx < used_levels) =>
        /\ remaining = unfilled_qty
        /\ IF asks[level_idx + 1] * 100 > current_price * (100 + LimitBuyMaxPremiumPct)
              THEN ladder_ret'.reason = "guard_triggered" /\ NoFurtherOrder
           ELSE IF max_ps_qty2' # NoCap /\ max_ps_qty2' <= 0
              THEN ladder_ret'.reason = "qty_insufficient" /\ NoFurtherOrder
           ELSE /\ lpc' = "order_token"
                /\ remaining' = IF max_ps_qty2' = NoCap THEN unfilled_qty
                                ELSE Min(unfilled_qty, max_ps_qty2')

C5_AtMostOneFurtherOrder ==
    /\ []C5_NextLevelInv
    /\ [][C5_NextLevelStep]_vars

\* level 1 ordered 2, 1 stayed unfilled and was cancelled, level 2 ordered 1
C5_Witness ==
    /\ lpc = "done"
    /\ TraceSteps("buy.ladder.level.next") # {}
    /\ \E i \in AttemptsAt("ask_ladder", 1), j \in AttemptsAt("ask_ladder", 2) :
          buy_attempts[i].qty = 2 /\ buy_attempts[j].qty = 1

(***************************************************************************)
(* C6: when the fill-state query reports no unfilled residual the ladder   *)
(* returns (True, filled_or_removed) and no further buy order (next level  *)
(* or fallback) is submitted; a full fill at level 1 leaves exactly one    *)
(* order submission.                                                       *)
(***************************************************************************)
C6_FilledInv ==
    (\E e \in TraceSteps("buy.ladder.filled_or_removed") : trace[e].level = 1)
        => (Len(buy_attempts) = 1 /\ ladder_ret.ok)

C6_FilledStep ==
    /\ (lpc = "fill_query" /\ lpc' # "fill_query" /\ unfilled_qty' <= 0)
          => ladder_ret' = [ok |-> TRUE, reason |-> "filled_or_removed"]
    /\ ladder_ret.reason = "filled_or_removed" => NoFurtherOrder

C6_FilledEndsLadder ==
    /\ []C6_FilledInv
    /\ [][C6_FilledStep]_vars

C6_Witness ==
    /\ lpc = "done"
    /\ ladder_ret = [ok |-> TRUE, reason |-> "filled_or_removed"]
    /\ Len(buy_attempts) = 1
    /\ buy_attempts[1].level = 1
    /\ buy_attempts[1].ok

(***************************************************************************)
(* C7: a slippage fallback order is submitted only when the ladder ended   *)
(* with ask_api_failed or asks_empty, hence before any ladder order; at    *)
(* most one fallback order is submitted for the candidate.                 *)
(***************************************************************************)
C7_FallbackOnlyWithoutLadderOrder ==
    /\ Cardinality(AttemptsOf("slippage_fallback")) <= 1
    /\ (AttemptsOf("slippage_fallback") # {} \/ order_ctx = "slippage_fallback") =>
          /\ ladder_ret.reason \in {"ask_api_failed", "asks_empty"}
          /\ AttemptsOf("ask_ladder") = {}
          /\ (TraceSteps("buy.ladder.hoga_failed") \cup TraceSteps("buy.ladder.hoga_empty")) # {}

C7_Witness ==
    /\ lpc = "done"
    /\ AttemptsOf("slippage_fallback") # {}
    /\ ladder_ret.reason = "ask_api_failed"

(***************************************************************************)
(* Claims on the token arbitration (SpecAuth)                              *)
(***************************************************************************)
\* the persisted next_issue_at lies in the future
CooldownInEffect == token_meta.next_issue_at # 0 /\ now < token_meta.next_issue_at

\* the processes whose current call has sent a token request
Issuers == {p \in Procs : sent[p]}

C9_ExactlyOneIssues ==
    (overlap /\ \A p \in Procs : apc[p] = "return" /\ ret[p].site # "no_credentials") =>
        /\ Cardinality(Issuers) = 1
        /\ \A p \in Procs \ Issuers : ~ret[p].token

(***************************************************************************)
(* C10 as stated: no token request is sent while the persisted cooldown is *)
(* in effect.                                                              *)
(***************************************************************************)
C10_NoSendDuringCooldown ==
    [][\A p \in Procs :
          (apc[p] = "send" /\ apc'[p] = "await") => ~CooldownInEffect]_vars

(***************************************************************************)
(* C10 amended: a get_token call that has no valid cached token and finds  *)
(* the persisted cooldown in effect at one of its two checks returns no    *)
(* token and sends no token request; a call that passed both checks before *)
(* the cooldown was set is not stopped by it.                              *)
(***************************************************************************)
C10_CheckStep ==
    \A p \in Procs :
        (/\ apc[p] \in {"idle", "locked"}
         /\ apc'[p] # apc[p]
         /\ ~IsTokenValid(access_tokens[p], now)
         /\ CooldownInEffect)
            => /\ apc'[p] = "return"
               /\ ret'[p] = [token |-> FALSE, site |-> "cooldown"]
               /\ ~sent'[p]

C10_CooldownInv ==
    \A p \in Procs : ret[p].site = "cooldown" => (~sent[p] /\ apc[p] = "return")

C10_CooldownStopsNewCalls ==
    /\ []C10_CooldownInv
    /\ [][C10_CheckStep]_vars

\* a call is turned away by the cooldown that a failed issuance of the other
\* process has set
C10_Witness ==
    \E p \in Procs :
        /\ apc[p] = "return"
        /\ ret[p].site = "cooldown"
        /\ token_meta.reason = "issue_failed"
        /\ CooldownInEffect

(***************************************************************************)
(* C11: for one engine instance at most one thread is inside the cycle     *)
(* body (between the setting of the guard flag and the end of finally) at  *)
(* any time.                                                               *)
(***************************************************************************)
C11_AtMostOneCycleBody == Cardinality({t \in Threads : wpc[t] \in BodyPcs}) <= 1

(***************************************************************************)
(* Claims on the run record of a cycle (SpecCycle)                         *)
(***************************************************************************)
\* the status rule as the specification words it
C13_Rule(h, escaped) ==
    IF escaped THEN "error"
    ELSE IF (\E i \in 1..Len(h.buy_attempts) : h.buy_attempts[i].ok)
            \/ (\E i \in 1..Len(h.sell_attempts) : h.sell_attempts[i].ok)
         THEN "success"
    ELSE IF Len(h.buy_attempts) + Len(h.sell_attempts) + Len(h.skips) + Len(h.errors) > 0
         THEN "partial"
    ELSE "no_trade"

(***************************************************************************)
(* C13: every row handed to the ledger has a status among success,         *)
(* partial, no_trade and error, and the status is error if an exception    *)
(* escaped the body, else success if an attempt succeeded, else partial if *)
(* an attempt, skip or error entry exists, else no_trade; on every path by *)
(* which a cycle ends.  The early returns of the body do not follow it.    *)
(***************************************************************************)
C13_PersistedStatusFollowsRule ==
    appended # NoRow =>
        /\ appended.status \in {"success", "partial", "no_trade", "error"}
        /\ appended.status = C13_Rule(appended, raised)

Scanned == {s \in DOMAIN my_stocks : \A i \in 1..Len(to_scan) : to_scan[i] # s}

\* the FX step of the cycle is over
FxResolved == cpc \notin {"idle", "token", "strategy"}

(***************************************************************************)
(* C15: when the FX resolver yields no positive rate, the cycle never      *)
(* enters the buy loop and records no buy attempt, while the sell scan     *)
(* places a sell order for exactly the positions it would sell with a      *)
(* valid rate: those outside the cooldown, with an orderable quantity and  *)
(* a sell reason.                                                          *)
(***************************************************************************)
C15_NoRateNoBuySellsProceed ==
    /\ (FxResolved /\ usd_krw_rate <= 0) =>
          /\ cpc # "buy"
          /\ to_buy = <<>>
          /\ history.buy_attempts = <<>>
    /\ \A s \in Scanned :
          s \in sell_orders_placed <=>
             /\ ~my_stocks[s].cooldown
             /\ my_stocks[s].ord_psbl_qty > 0
             /\ SellReason(my_stocks[s]) # "none"

\* a cycle without a rate that sold a position and had a buy list to work on
C15_Witness ==
    /\ cpc = "done"
    /\ usd_krw_rate <= 0
    /\ ~raised
    /\ buy_list # <<>>
    /\ sell_orders_placed # {}
    /\ appended.sell_attempts # <<>>
    /\ appended.buy_attempts = <<>>

\* the step on which a cycle without a positive FX rate, and without an exception, gets
\* its final status: a return of the buy gate or the status summary
C16_FinalStep ==
    /\ usd_krw_rate <= 0
    /\ cpc \in {"sell", "summary"}
    /\ cpc' = "finally"
    /\ ~raised'

(***************************************************************************)
(* C16: when the FX resolver returns rate 0, the final status of the run   *)
(* is partial if a sell attempt exists and no_trade otherwise, whatever    *)
(* the buy list holds, the empty list included.                            *)
(***************************************************************************)
C16_NoRateStatusBySellAttempts ==
    [][C16_FinalStep =>
          history'.status =
             IF history'.sell_attempts # <<>> THEN "partial" ELSE "no_trade"]_vars

(***************************************************************************)
(* C16, amended: with rate 0 and a non-empty buy list the final status is  *)
(* partial if a sell attempt exists and no_trade otherwise; with an empty  *)
(* buy list it is success if a sell attempt succeeded and partial          *)
(* otherwise (the record holds the fx_rate_unavailable error entry).       *)
(***************************************************************************)
C16_NoRateStatusByBuyList ==
    [][C16_FinalStep =>
          history'.status =
             IF buy_list # <<>>
                THEN (IF history'.sell_attempts # <<>> THEN "partial" ELSE "no_trade")
                ELSE (IF \E i \in 1..Len(history'.sell_attempts) : history'.sell_attempts[i].ok
                         THEN "success" ELSE "partial")]_vars

\* a cycle without a rate and with an empty buy list whose sell succeeded
C16_Witness ==
    /\ cpc = "done"
    /\ usd_krw_rate <= 0
    /\ ~raised
    /\ buy_list = <<>>
    /\ appended.sell_attempts # <<>>
    /\ appended.status = "success"

\* indices of the sell attempts of the persisted row that are about symbol s
C17_AttemptsFor(s) ==
    {i \in 1..Len(appended.sell_attempts) : appended.sell_attempts[i].symbol = s}

(***************************************************************************)
(* C17: in a cycle that ends without an exception, a held position outside *)
(* the sell cooldown, with orderable quantity q > 0 and a profit rate at   *)
(* or above the take-profit percentage has exactly one sell attempt on the *)
(* row, with reason take_profit and quantity q, and if that order          *)
(* succeeded the final status is success.                                  *)
(***************************************************************************)
C17_TakeProfitSellsOnceWithSuccess ==
    (cpc = "done" /\ ~raised) =>
        \A s \in Scanned :
            (/\ ~my_stocks[s].cooldown
             /\ my_stocks[s].ord_psbl_qty > 0
             /\ my_stocks[s].profit_rate >= strategy.take_profit_pct)
            => /\ Cardinality(C17_AttemptsFor(s)) = 1
               /\ \A i \in C17_AttemptsFor(s) :
                     /\ appended.sell_attempts[i].reason = "take_profit"
                     /\ appended.sell_attempts[i].qty = my_stocks[s].ord_psbl_qty
                     /\ appended.sell_attempts[i].ok => appended.status = "success"

\* indices of the sell attempts of the current record that are about symbol s
C18_AttemptsFor(s) ==
    {i \in 1..Len(history.sell_attempts) : history.sell_attempts[i].symbol = s}

\* reasons under which the sell scan has acted on symbol s: those of its sell attempts
\* and those of its price_unavailable skips
C18_ReasonsFor(s) ==
    {history.sell_attempts[i].reason : i \in C18_AttemptsFor(s)}
    \cup {r \in {"take_profit", "stop_loss", "max_hold_days"} :
             \E i \in 1..Len(history.skips) :
                /\ history.skips[i].side = "sell"
                /\ history.skips[i].symbol = s
                /\ history.skips[i].reason =
                      (IF r = "take_profit" THEN "take_profit_price_unavailable"
                       ELSE IF r = "stop_loss" THEN "stop_loss_price_unavailable"
                       ELSE "max_hold_price_unavailable")}

(***************************************************************************)
(* C18: for each held position with an orderable quantity the sell scan    *)
(* tests, in this order, the cooldown guard, take-profit, stop-loss and    *)
(* the holding period and acts on the first that matches: a position under *)
(* the guard gets no sell order, a position gets at most one sell reason   *)
(* and at most one sell attempt, take-profit wins over stop-loss, and      *)
(* stop-loss wins over the holding period.                                 *)
(***************************************************************************)
C18_FirstMatchWins ==
    \A s \in Scanned :
        LET info == my_stocks[s]
            tp == info.profit_rate >= strategy.take_profit_pct
            sl == info.profit_rate <= strategy.stop_loss_pct
        IN  info.ord_psbl_qty > 0 =>
               /\ Cardinality(C18_AttemptsFor(s)) <= 1
               /\ Cardinality(C18_ReasonsFor(s)) <= 1
               /\ info.cooldown =>
                     s \notin sell_orders_placed /\ C18_ReasonsFor(s) = {}
               /\ (~info.cooldown /\ tp) => C18_ReasonsFor(s) = {"take_profit"}
               /\ (~info.cooldown /\ ~tp /\ sl) => C18_ReasonsFor(s) = {"stop_loss"}
               /\ (~info.cooldown /\ ~tp /\ ~sl /\ info.hold_exceeded) =>
                     C18_ReasonsFor(s) = {"max_hold_days"}
               /\ (~info.cooldown /\ ~tp /\ ~sl /\ ~info.hold_exceeded) =>
                     s \notin sell_orders_placed /\ C18_ReasonsFor(s) = {}

\* a position that meets the take-profit and the stop-loss condition at once and was
\* sold as take-profit, next to the scan having finished
C18_Witness ==
    /\ cpc = "summary"
    /\ \E s \in Scanned :
          /\ my_stocks[s].profit_rate >= strategy.take_profit_pct
          /\ my_stocks[s].profit_rate <= strategy.stop_loss_pct
          /\ my_stocks[s].hold_exceeded
          /\ \E i \in C18_AttemptsFor(s) : history.sell_attempts[i].reason = "take_profit"

\* symbols for which the buy loop of the cycle has recorded an order
C19_Bought == {history.buy_attempts[i].symbol : i \in 1..Len(history.buy_attempts)}

\* symbols a sell of which succeeded in the cycle
C19_Sold ==
    {history.sell_attempts[i].symbol :
        i \in {j \in 1..Len(history.sell_attempts) : history.sell_attempts[j].ok}}

(***************************************************************************)
(* C19: no buy order is placed for a symbol of the balance snapshot unless *)
(* a sell of that symbol succeeded earlier in the same cycle, and buy      *)
(* orders are placed for at most top_n candidates of the cycle.            *)
(***************************************************************************)
C19_NoBuyOfHeldAndTopN ==
    /\ \A s \in C19_Bought : s \in DOMAIN my_stocks => s \in C19_Sold
    /\ Cardinality(C19_Bought) <= strategy.top_n
    /\ Len(candidates) <= strategy.top_n
    /\ \A s \in C19_Bought : \E i \in 1..Len(candidates) : candidates[i] = s

\* top_n = 1 and two eligible codes, the first of them held and sold in this cycle:
\* it is bought again and the second one is cut off
C19_Witness ==
    /\ cpc = "summary"
    /\ strategy.top_n = 1
    /\ buy_list = <<"AAA", "BBB">>
    /\ "AAA" \in DOMAIN my_stocks
    /\ "BBB" \notin DOMAIN my_stocks
    /\ C19_Bought = {"AAA"}

(***************************************************************************)
(* C20: every candidate the buy scan has examined leaves at least one      *)
(* entry on the run record, a buy attempt or a skip with a reason code;    *)
(* no candidate is dropped without a trace.                                *)
(***************************************************************************)
C20_CandidateLeavesEntry ==
    lpc = "done" =>
        /\ Len(buy_attempts) + Len(skips) >= 1
        /\ \A i \in 1..Len(skips) : skips[i].reason # ""

\* a ladder that ended at the price guard without any order: the skip is the only entry
C20_Witness ==
    /\ lpc = "done"
    /\ buy_attempts = <<>>
    /\ ladder_ret.reason = "guard_triggered"
    /\ skips = <<[reason |-> "ladder_failed_no_fallback"]>>

(***************************************************************************)
(* Claims on the PositionStore (SpecPositions)                             *)
(***************************************************************************)
\* the latest operation was set_open_date(source = api) on an entry with source detect
C21_ApiOnDetect ==
    /\ ps_op.op = "set_open_date_api"
    /\ ps_op.prev.tracked
    /\ ps_op.prev.source = "detect"

(***************************************************************************)
(* C21: for a position whose open date has source detect, an api           *)
(* reconciliation with a date less than or equal to the detect date sets   *)
(* the open date to the api date and promotes the source to api.           *)
(***************************************************************************)
C21_EarlierApiDatePromotes ==
    (C21_ApiOnDetect /\ ps_op.date <= ps_op.prev.open_date) =>
        positions.open_date = ps_op.date /\ positions.source = "api"

(***************************************************************************)
(* C22: over any sequence of store operations on a symbol that stays       *)
(* tracked, an open date with source api never moves to an earlier date:   *)
(* an api reconciliation with an earlier date leaves the entry as it was,  *)
(* and an upsert with a larger quantity keeps the api date and source.     *)
(***************************************************************************)
C22_ApiDateNeverRegresses ==
    (ps_op.prev.tracked /\ ps_op.prev.source = "api" /\ positions.tracked) =>
        /\ positions.open_date >= ps_op.prev.open_date
        /\ (ps_op.op = "set_open_date_api" /\ ps_op.date < ps_op.prev.open_date) =>
              positions = ps_op.prev
        /\ (ps_op.op \in {"engine_snapshot", "status_sync"}) =>
              /\ positions.open_date = ps_op.prev.open_date
              /\ positions.source = "api"

\* an api date of day 2 met by an api reconciliation with day 1
C22_Witness ==
    /\ ps_op.op = "set_open_date_api"
    /\ ps_op.prev.tracked
    /\ ps_op.prev.source = "api"
    /\ ps_op.date < ps_op.prev.open_date
    /\ positions = ps_op.prev

(***************************************************************************)
(* C23: a tracked position leaves the store only when an engine cycle      *)
(* finds its symbol absent from the balance snapshot for the second        *)
(* consecutive time, and it does leave the store then; it is kept after a  *)
(* single absence, and a snapshot that holds the symbol again sets its     *)
(* absence count to zero.                                                  *)
(***************************************************************************)
C23_RemovedAfterTwoAbsences ==
    /\ (ps_op.prev.tracked /\ ~positions.tracked) =>
          ps_op.op = "engine_snapshot" /\ absent_run >= MissingLimit
    /\ (ps_op.op = "engine_snapshot" /\ absent_run >= MissingLimit) => ~positions.tracked
    /\ (ps_op.op = "engine_snapshot" /\ ps_op.present) => missing_counts = 0

\* the latest request of the running call with its response
LastExchange ==
    IF g_sent = <<>> THEN [attempt |-> 0, token |-> 0, status |-> 0, msg_cd |-> "none"]
    ELSE g_sent[Len(g_sent)]

(***************************************************************************)
(* C24: every gateway operation follows the same retry policy for rate     *)
(* limiting: when the rate-limit result code EGW00201 arrives on a         *)
(* non-final attempt, in an HTTP 200 or an HTTP 500 body, the call backs   *)
(* off and makes another attempt - for order, cancel/revise,               *)
(* unfilled-orders and quote calls just as for balance calls.              *)
(***************************************************************************)
C24_RateLimitRetriedEverywhere ==
    (/\ LastExchange.msg_cd = "EGW00201"
     /\ LastExchange.status \in {200, 500}
     /\ LastExchange.attempt < MaxAttempts(g_op) - 1) =>
        /\ g_pc = "send"
        /\ g_attempt = LastExchange.attempt + 1
        /\ g_sleeps >= 1

(***************************************************************************)
(* C25: when a non-final attempt of a gateway call receives the            *)
(* expired-token result code, the cached token of the mode is invalidated  *)
(* and the next attempt carries a token obtained after the invalidation,   *)
(* not the rejected one; a call whose only fault is an expired token       *)
(* therefore does not return None.                                         *)
(***************************************************************************)
C25_RetryCarriesFreshToken ==
    /\ (/\ LastExchange.msg_cd = "EGW00123"
        /\ LastExchange.attempt < MaxAttempts(g_op) - 1) =>
           /\ g_pc = "send"
           /\ g_cached # LastExchange.token
           /\ headers # LastExchange.token
    /\ (/\ g_pc = "done"
        /\ g_sent # <<>>
        /\ \A i \in 1..Len(g_sent) : g_sent[i].msg_cd \in {"EGW00123", "0"}) =>
           g_ret = "output"

(***************************************************************************)
(* C26: when the watchdog finds the child of a mode dead it restarts it    *)
(* with capped exponential backoff: the restart that follows the k-th      *)
(* consecutive death comes no sooner than min(30, 2^(k-1)) seconds after   *)
(* the pass that found that death, and once a pass sees the child alive    *)
(* the failure count and the backoff are zero again.                       *)
(***************************************************************************)
C26_DeathsBackOffExponentially ==
    /\ wd_op.op = "restart" => wd_op.at >= wd_op.found_at + Backoff(wd_op.k)
    /\ wd_op.op = "alive" => restart_fail_count = 0 /\ next_restart_at = 0

DigitAt(x, i) == IF i <= Len(x.frac) THEN x.frac[i] ELSE 0

\* x is p truncated toward zero to k fractional digits
IsTruncation(x, p, k) ==
    /\ ~x.neg
    /\ x.int = p.int
    /\ \A i \in 1..(MaxFracLen + 1) : DigitAt(x, i) = (IF i <= k THEN DigitAt(p, i) ELSE 0)

\* x <= p for non-negative decimals: integer parts, then digits from the left
DecLeq(x, p) ==
    \/ x.int < p.int
    \/ /\ x.int = p.int
       /\ \/ \A i \in 1..(MaxFracLen + 1) : DigitAt(x, i) = DigitAt(p, i)
          \/ \E j \in 1..(MaxFracLen + 1) :
                /\ DigitAt(x, j) < DigitAt(p, j)
                /\ \A i \in 1..(j - 1) : DigitAt(x, i) = DigitAt(p, i)

(***************************************************************************)
(* C28: for every non-negative price p the order-submission formatter      *)
(* returns p truncated toward zero to 2 fractional digits when p >= 1 and  *)
(* to 4 when p < 1, the unit-price formatter returns p truncated to at     *)
(* most 8 fractional digits without trailing zeros, and neither result is  *)
(* greater than p.                                                         *)
(***************************************************************************)
C28_FormattersTruncate ==
    (fm_price # PriceNone /\ ~fm_price.neg) =>
        /\ fm_order # NotFormatted =>
              /\ IsTruncation(fm_order, fm_price, IF fm_price.int >= 1 THEN 2 ELSE 4)
              /\ Len(fm_order.frac) <= (IF fm_price.int >= 1 THEN 2 ELSE 4)
              /\ DecLeq(fm_order, fm_price)
        /\ fm_unpr # NotFormatted =>
              /\ IsTruncation(fm_unpr, fm_price, 8)
              /\ Len(fm_unpr.frac) <= 8
              /\ fm_unpr.frac # <<>> => fm_unpr.frac[Len(fm_unpr.frac)] # 0
              /\ DecLeq(fm_unpr, fm_price)

\* a price below 1 with a nonzero fifth digit and a nonzero ninth digit, formatted
\* by both formatters
C28_Witness ==
    /\ fm_price # PriceNone
    /\ ~fm_price.neg
    /\ fm_price.int = 0
    /\ Len(fm_price.frac) = 9
    /\ fm_price.frac[5] = 9
    /\ fm_price.frac[8] = 0
    /\ fm_price.frac[9] = 9
    /\ fm_order # NotFormatted
    /\ fm_unpr # NotFormatted
    /\ fm_order # fm_price
    /\ fm_unpr # fm_price

(***************************************************************************)
(* C29: at any time at most one process holds the token-issuance lock of   *)
(* a mode, also when several processes find the same stale lock file       *)
(* (age > 120 s) and reclaim it at the same time: while a process holds    *)
(* the lock, the lock file it created exists and no other process holds    *)
(* it.                                                                     *)
(***************************************************************************)
C29_AtMostOneLockHolder ==
    /\ Cardinality({p \in Procs : lock_path[p]}) <= 1
    /\ (\E p \in Procs : lock_path[p]) => lock_file.exists

(***************************************************************************)
(* C30: for one buy candidate bought with the ask ladder, the quantity     *)
(* that can end up filled across all ladder orders - the shares filled so  *)
(* far plus the shares of the order still live - never exceeds the         *)
(* quantity sized for the candidate, also when the broker fills more       *)
(* shares between the fill-state query and the cancellation of the         *)
(* residual.                                                               *)
(***************************************************************************)
C30_LadderNeverOverfills ==
    (\A i \in 1..Len(buy_attempts) : buy_attempts[i].method = "ask_ladder") =>
        filled + odno_open <= qty

(***************************************************************************)
(* C32: every get_token call that acquired the cross-process issuance lock *)
(* releases it before it returns, on every path (issued, HTTP failure,     *)
(* exception, missing credentials): when such a call returns, a lock file  *)
(* exists only if another process holds the lock.                          *)
(***************************************************************************)
C32_LockReleasedOnReturn ==
    \A p \in Procs :
        (apc[p] = "return"
            /\ ret[p].site \in {"issued", "issue_failed", "exception", "no_credentials"}) =>
            (lock_file.exists => \E q \in Procs \ {p} : lock_path[q])

(***************************************************************************)
(* C31: for every buy order submitted for a candidate (single slippage     *)
(* order, ladder order at any level, fallback order) quantity x limit      *)
(* price does not exceed the per-candidate budget.                         *)
(***************************************************************************)
C31_OrderValueWithinBudget ==
    \A i \in 1..Len(buy_attempts) :
        buy_attempts[i].qty * buy_attempts[i].price <= per_stock_budget

C34_NoSellWithinCooldown ==
    (last_sell.by # "none" /\ last_sell.prev # <<>>) =>
        last_sell.at - last_sell.prev[1] >= CooldownMinutes

(***************************************************************************)
(* C35: the cancellation that precedes a buy or sell order of a symbol     *)
(* asks the broker to cancel only resting orders of that symbol and of     *)
(* that side, and nothing at all in mock mode.                             *)
(***************************************************************************)
C35_CancelsOnlySameSymbolAndSide ==
    /\ \A r \in cx_call.tried :
         /\ r.pdno = cx_call.symbol
         /\ r.sll_buy_dvsn_cd = (IF cx_call.side = "buy" THEN "02" ELSE "01")
    /\ cx_mode # "real" => cx_call.tried = {}

(***************************************************************************)
(* C36: under every interleaving of start, stop and restart requests with  *)
(* the steps of the watchdog, each mode has at most one live scheduler     *)
(* child process.                                                          *)
(***************************************************************************)
C36_AtMostOneChildPerMode ==
    \A m \in Modes : (IF ms_proc[m] = "alive" THEN 1 ELSE 0) + ms_orphans[m] <= 1

C36_Witness ==
    /\ ms_last.by = "web"
    /\ ms_last.found = "alive"
    /\ ms_proc[ms_last.mode] = "alive"
    /\ \E t \in WatchdogThreads : wt_pc[t] = ms_last.mode

(***************************************************************************)
(* C37: while the scheduler is started and no stop() is running, a mode    *)
(* whose child is not alive gets its child restarted, provided starting a  *)
(* child of that mode succeeds in the end; nothing is assumed about the    *)
(* other mode, whose every start may fail.                                 *)
(***************************************************************************)
C37_DeadChildRestarted ==
    \A m \in Modes :
        SF_vars(WatchdogRestarts(m)) =>
            ((mps_started /\ mps_pc = "idle" /\ ms_proc[m] # "alive") ~>
                (ms_proc[m] = "alive" \/ ~mps_started \/ mps_pc # "idle"))

C37_Witness ==
    /\ mps_started
    /\ mps_pc = "idle"
    /\ ms_proc["mock"] = "dead"
    /\ ms_restart_in["mock"] > 0
    /\ ms_last = [by |-> "watchdog", mode |-> "real", found |-> "dead"]
    /\ ms_proc["real"] = "alive"

(***************************************************************************)
(* C38: once MultiProcessScheduler.stop() has returned, and as long as no  *)
(* start has been requested since that stop() began, no scheduler child is *)
(* alive.                                                                  *)
(***************************************************************************)
C38_NoChildAfterStop ==
    (no_start_since /\ mps_pc = "idle") =>
        \A m \in Modes : ms_proc[m] # "alive" /\ ms_orphans[m] = 0

(***************************************************************************)
(* C39: every entry of the position store has a quantity above 0, an open  *)
(* date and an open-date source; no operation leaves an entry without a    *)
(* quantity.                                                               *)
(***************************************************************************)
C39_EntriesHaveQuantity ==
    positions.tracked =>
        /\ positions.qty > 0
        /\ positions.open_date \in 1..MaxPsDay
        /\ positions.source \in {"detect", "api", "buy_exec"}

(***************************************************************************)
(* C40 as stated: get(run_id) returns for every appended run the record    *)
(* that was appended, and the summary index holds one entry per appended   *)
(* run, newest first, in the order of the full list.                       *)
(***************************************************************************)
C40_IndexHoldsEveryRun ==
    /\ \A i \in 1..Len(lg_appended) : LedgerLookup(lg_appended[i].run_id) = lg_appended[i]
    /\ Len(lg_index) = Len(lg_appended)
    /\ Len(lg_rows) = Len(lg_appended)
    /\ \A i \in 1..Len(lg_index) :
         /\ lg_index[i] = BuildSlim(lg_appended[Len(lg_appended) + 1 - i])
         /\ lg_rows[i].run_id = lg_index[i].run_id

(***************************************************************************)
(* C40 amended: get(run_id) returns for every appended run the record that *)
(* was appended; the summary index and the full list hold the newest       *)
(* max_entries runs only, one entry per run, newest first and in the same  *)
(* order, and older runs drop out of both.                                 *)
(***************************************************************************)
C40_IndexHoldsNewestRuns ==
    /\ \A i \in 1..Len(lg_appended) : LedgerLookup(lg_appended[i].run_id) = lg_appended[i]
    /\ Len(lg_index) = Min(Len(lg_appended), MaxEntries)
    /\ Len(lg_rows) = Len(lg_index)
    /\ \A i \in 1..Len(lg_index) :
         /\ lg_index[i] = BuildSlim(lg_appended[Len(lg_appended) + 1 - i])
         /\ lg_rows[i] = lg_appended[Len(lg_appended) + 1 - i]

C40_Witness ==
    /\ Len(lg_appended) > MaxEntries
    /\ lg_got = <<lg_appended[1]>>
    /\ \A i \in 1..Len(lg_index) : lg_index[i].run_id # lg_appended[1].run_id

=============================================================================
